---- MODULE Spec2Model ----
(***************************************************************************)
(* BloxMarket: the middleman application workflow of the verification      *)
(* controller (submitApplication, reviewApplication) and the vote toggle   *)
(* on trades, forum posts and events with the two modals that call it      *)
(* (Dashboard's PostModal, TradingHub's TradeDetailsModal).                *)
(*                                                                         *)
(* A request handler is a process of the Node runtime: it runs without     *)
(* interruption from one await to the next, so every action below is the   *)
(* code between two awaits.  pc names the await a request is suspended at. *)
(***************************************************************************)
EXTENDS Integers, Sequences, FiniteSets, TLC

\* ------------------------------------------------------------------ bounds
MaxApps == 2       \* middleman applications ever created
MaxFiles == 1      \* files uploaded with one application (the route allows 5)
MaxDocs == 1       \* VerificationDocument records ever created
NProcs == 2        \* request slots of each controller
MaxText == 1       \* characters of a comment typed in a modal
MaxComments == 2   \* comments ever appended to the post
MaxIssues == 6     \* tokens issued and not logged out since, all users together
MaxClock == 1      \* seconds that pass while the auth router is watched
MaxUserDocs == 2   \* User documents the authController ever holds
MaxSessions == 2   \* tokens stored in the User documents, all together
MaxImages == 3     \* images of a post of the dashboard
MaxRefresh == 2    \* times the profile load is retried after a rate-limit refusal

Users == {1, 2}                         \* ids of the user records (role 'user')
Procs == 1..NProcs
Admins == {"admin1"}                    \* reviewers' user ids
Undefined == "undefined"                \* a field missing from the request body
Null == "null"
ReviewActions == {"approve", "reject", "archive"}
Reasons == {Undefined, "", "fake vouches"}
\* Which of experience, availability, why_middleman a submission carries.
FieldCombos == {<<TRUE, TRUE, TRUE>>, <<FALSE, TRUE, TRUE>>, <<TRUE, FALSE, TRUE>>,
                <<TRUE, TRUE, FALSE>>, <<FALSE, FALSE, FALSE>>}

\* JavaScript's !x for the strings a request body carries.
Falsy(x) == x \in {Undefined, Null, ""}

VARIABLES
    users,       \* User collection: id -> record
    apps,        \* MiddlemanApplication collection, _id = position
    documents,   \* VerificationDocument collection: the number of its records
    mreq,        \* requests of the verification controller, per slot
    mpre         \* per slot, the collections as they were when its request arrived

mmVars == <<users, apps, documents, mreq, mpre>>

VARIABLES
    postType,    \* 'forum' | 'trade' | 'event' | other: the kind of the post shown
    postExists,  \* the post's document is in its collection
    upvotes,     \* its upvotes list: voter ids, in insertion order
    downvotes,   \* its downvotes list
    vreq,        \* vote requests, per slot
    vprev,       \* the vote request that completed before the current one
    me,          \* the user logged in at the browser (0: nobody)
    modal        \* component state of the open PostModal / TradeDetailsModal

voteVars == <<postType, postExists, upvotes, downvotes, vreq, vprev, me, modal>>

VARIABLES
    comments,    \* the post's embedded comments, in insertion order
    creq         \* the comment request of the open modal

cmtVars == <<comments, creq>>

VARIABLES
    adminGate    \* the roles the requireAdmin middleware lets through

gateVars == <<adminGate>>

VARIABLES
    tokens,      \* User.tokens of each user: the stored session tokens
    live,        \* per user, the tokens issued and not logged out since, in
                 \* the order of issue
    areq,        \* the request of the auth router
    clock,       \* the time in seconds, which jwt.sign stamps on a token
    is_active,   \* User.is_active of each user
    userDocs     \* the User documents the authController's handlers look up,
                 \* insert and save, in insertion order

acctVars == <<is_active, userDocs>>
authVars == <<tokens, live, areq, clock, acctVars>>

VARIABLES
    image,       \* the state of one ImageDisplay of the trading hub
    editor,      \* the trading hub's current user, trades and edit dialog
    viewer,      \* the dashboard's selected post and the PostModal's image index
    profile      \* the UserProfile page: its load effect, timers and requests

clientVars == <<image, editor, viewer, profile>>

\* The variables of the parts that are neither the verification workflow nor
\* the vote toggle.
auxVars == <<cmtVars, gateVars, authVars, clientVars>>

vars == <<mmVars, voteVars, auxVars>>

\* ------------------------------------------------------------- documents
NoUser == [exists |-> FALSE, role |-> "none", role_history |-> <<>>,
           middleman_requested |-> FALSE]
NoApp == [user_id |-> 0, status |-> "none", reviewed_by |-> Null,
          rejection_reason |-> Null]

IdleReq == [pc |-> "idle", kind |-> "none", userId |-> 0,
            experience |-> FALSE, availability |-> FALSE, why_middleman |-> FALSE,
            files |-> 0, documentIds |-> 0,
            applicationId |-> 0, action |-> Undefined, reason |-> Undefined,
            adminId |-> Null, application |-> NoApp, user |-> NoUser,
            route |-> "", role |-> "none", document |-> 0,
            status |-> 0, error |-> ""]

\* A request slot is free when no handler is running in it.
Free(p) == mreq[p].pc \in {"idle", "done"}
InFlight(p) == ~Free(p)

\* The response is sent and the handler's locals are gone.
Respond(r, code, err) ==
    [r EXCEPT !.pc = "done", !.status = code, !.error = err,
              !.application = NoApp, !.user = NoUser]

\* MiddlemanApplication.findOne({ user_id, status: 'pending' }): 0 when none.
PendingIds(userId) ==
    {i \in 1..Len(apps) : apps[i].user_id = userId /\ apps[i].status = "pending"}
FindPending(userId) ==
    IF PendingIds(userId) = {} THEN 0
    ELSE CHOOSE i \in PendingIds(userId) : \A j \in PendingIds(userId) : i <= j

\* ------------------------------------------------------ submitApplication
\* The request arrives; the handler runs to its first await (findOne).
SubmitApplication(p, userId, exp, avail, why, nfiles) ==
    /\ Free(p)
    /\ Len(apps) + Cardinality({q \in Procs : InFlight(q) /\ mreq[q].kind = "submit"})
         < MaxApps
    /\ documents + nfiles <= MaxDocs
    /\ mreq' = [mreq EXCEPT ![p] =
          [IdleReq EXCEPT !.pc = "s_findOne", !.kind = "submit", !.userId = userId,
                          !.experience = exp, !.availability = avail,
                          !.why_middleman = why, !.files = nfiles]]
    /\ mpre' = [mpre EXCEPT ![p] = [users |-> users, apps |-> apps,
                                     documents |-> documents]]
    /\ UNCHANGED <<users, apps, documents, voteVars, auxVars>>

\* findOne returns: the pending check, the field validation, and the
\* construction of the application, up to the first save.  A new application
\* is pending (spec 4.3); the free-text fields and the list of attached
\* document ids, which no handler reads back, are left out of the record.
SubmitFindOne(p) ==
    LET r == mreq[p]
        existing == FindPending(r.userId)
        fresh == [NoApp EXCEPT !.user_id = r.userId, !.status = "pending"]
    IN
    /\ r.pc = "s_findOne"
    /\ mreq' = [mreq EXCEPT ![p] =
          IF existing # 0
          THEN Respond(r, 400, "You already have a pending middleman application")
          ELSE IF ~r.experience \/ ~r.availability \/ ~r.why_middleman
          THEN Respond(r, 400, "Missing required fields")
          ELSE [r EXCEPT !.application = fresh,
                         !.pc = IF r.files > 0 THEN "s_docSave" ELSE "s_appSave"]]
    /\ UNCHANGED <<users, apps, documents, mpre, voteVars, auxVars>>

\* One document.save() of the upload loop succeeds.
SubmitDocSave(p) ==
    LET r == mreq[p] IN
    /\ r.pc = "s_docSave"
    /\ documents' = documents + 1
    /\ mreq' = [mreq EXCEPT ![p] =
          [r EXCEPT !.files = r.files - 1,
                    !.documentIds = r.documentIds + 1,
                    !.pc = IF r.files > 1 THEN "s_docSave" ELSE "s_appSave"]]
    /\ UNCHANGED <<users, apps, mpre, voteVars, auxVars>>

\* One document.save() throws: the inner catch logs it and the loop goes on.
SubmitDocSaveFails(p) ==
    LET r == mreq[p] IN
    /\ r.pc = "s_docSave"
    /\ mreq' = [mreq EXCEPT ![p] =
          [r EXCEPT !.files = r.files - 1,
                    !.pc = IF r.files > 1 THEN "s_docSave" ELSE "s_appSave"]]
    /\ UNCHANGED <<users, apps, documents, mpre, voteVars, auxVars>>

\* application.save() inserts the new application.
SubmitAppSave(p) ==
    LET r == mreq[p] IN
    /\ r.pc = "s_appSave"
    /\ apps' = Append(apps, r.application)
    /\ mreq' = [mreq EXCEPT ![p] = [r EXCEPT !.applicationId = Len(apps) + 1,
                                              !.pc = "s_updateOne"]]
    /\ UNCHANGED <<users, documents, mpre, voteVars, auxVars>>

\* SubmitUpdateOne answering 201 without the update of the user.
SubmitUpdateOne_NoFlag(p) ==
    LET r == mreq[p] IN
    /\ r.pc = "s_updateOne"
    /\ mreq' = [mreq EXCEPT ![p] = Respond(r, 201, "")]
    /\ UNCHANGED <<users, apps, documents, mpre, voteVars, auxVars>>

\* User.updateOne({ _id }, { $set: { middleman_requested: true } }), then 201.
SubmitUpdateOne(p) ==
    LET r == mreq[p] IN
    /\ r.pc = "s_updateOne"
    /\ users' = IF users[r.userId].exists
                THEN [users EXCEPT ![r.userId].middleman_requested = TRUE]
                ELSE users
    /\ mreq' = [mreq EXCEPT ![p] = Respond(r, 201, "")]
    /\ UNCHANGED <<apps, documents, mpre, voteVars, auxVars>>

\* An await outside the inner try throws: the outer catch answers 500.
SubmitThrows(p) ==
    LET r == mreq[p] IN
    /\ r.pc \in {"s_findOne", "s_appSave", "s_updateOne"}
    /\ mreq' = [mreq EXCEPT ![p] = Respond(r, 500, "Failed to submit application")]
    /\ UNCHANGED <<users, apps, documents, mpre, voteVars, auxVars>>

\* ------------------------------------------------------ reviewApplication
\* ReviewValidation testing the reason for undefined only.
ReviewValidation_EmptyReasonPasses(action, reason) ==
    IF action \notin {"approve", "reject"} THEN "Invalid action"
    ELSE IF action = "reject" /\ reason = Undefined THEN "Rejection reason is required"
    ELSE ""

\* The two validations at the head of the handler: the error they answer
\* with, "" when the request passes.
ReviewValidation(action, reason) ==
    IF action \notin {"approve", "reject"} THEN "Invalid action"
    ELSE IF action = "reject" /\ Falsy(reason) THEN "Rejection reason is required"
    ELSE ""

\* The request arrives: the validations, then the await of findById.
ReviewApplication(p, applicationId, action, reason, adminId) ==
    /\ Free(p)
    /\ mreq' = [mreq EXCEPT ![p] =
          LET r == [IdleReq EXCEPT !.kind = "review", !.applicationId = applicationId,
                                   !.action = action, !.reason = reason,
                                   !.adminId = adminId]
              invalid == ReviewValidation(action, reason)
          IN IF invalid # "" THEN Respond(r, 400, invalid)
             ELSE [r EXCEPT !.pc = "r_findById"]]
    /\ mpre' = [mpre EXCEPT ![p] = [users |-> users, apps |-> apps,
                                     documents |-> documents]]
    /\ UNCHANGED <<users, apps, documents, voteVars, auxVars>>

\* The status the handler gives the application.
ReviewStatus(action) == IF action = "approve" THEN "approved" ELSE "rejected"

\* The pending check left out.
ReviewProcessed_Never(application) == FALSE

\* The pending check refusing approved applications only.
ReviewProcessed_OnlyApproved(application) == application.status = "approved"

\* The pending check refusing rejected applications only.
ReviewProcessed_OnlyRejected(application) == application.status = "rejected"

\* The pending check of the handler.
ReviewProcessed(application) == application.status # "pending"

\* findById returns: not found, already processed, or the application is
\* changed in memory and its save is awaited.
ReviewFindById(p) ==
    LET r == mreq[p]
        found == r.applicationId \in 1..Len(apps)
        application == IF found THEN apps[r.applicationId] ELSE NoApp
        updated == [application EXCEPT
                      !.status = ReviewStatus(r.action),
                      !.reviewed_by = r.adminId,
                      !.rejection_reason =
                          IF r.action = "reject" THEN r.reason ELSE @]
    IN
    /\ r.pc = "r_findById"
    /\ mreq' = [mreq EXCEPT ![p] =
          IF ~found THEN Respond(r, 404, "Application not found")
          ELSE IF ReviewProcessed(application)
          THEN Respond(r, 400, "Application has already been processed")
          ELSE [r EXCEPT !.application = updated, !.pc = "r_appSave"]]
    /\ UNCHANGED <<users, apps, documents, mpre, voteVars, auxVars>>

\* ReviewAppSave leaving the stored application as it was: the write put
\* off until the user is found.
ReviewAppSave_Deferred(p) ==
    LET r == mreq[p] IN
    /\ r.pc = "r_appSave"
    /\ mreq' = [mreq EXCEPT ![p] = [r EXCEPT !.pc = "r_findUser"]]
    /\ UNCHANGED <<users, apps, documents, mpre, voteVars, auxVars>>

\* application.save() writes the paths the handler modified; User.findById
\* is awaited next.
ReviewAppSave(p) ==
    LET r == mreq[p] IN
    /\ r.pc = "r_appSave"
    /\ apps' = [apps EXCEPT ![r.applicationId] =
                  [@ EXCEPT !.status = r.application.status,
                            !.reviewed_by = r.application.reviewed_by,
                            !.rejection_reason =
                                IF r.action = "reject"
                                THEN r.application.rejection_reason ELSE @]]
    /\ mreq' = [mreq EXCEPT ![p] = [r EXCEPT !.pc = "r_findUser"]]
    /\ UNCHANGED <<users, documents, mpre, voteVars, auxVars>>

\* The role_history entry pushed on approval.  The handler assigns
\* user.role before it builds the entry, so old_role reads the new role.
RoleHistoryEntry(user, adminId) ==
    [old_role |-> user.role, new_role |-> "middleman", changed_by |-> adminId,
     reason |-> "Middleman application approved"]

\* ReviewedUser without the reset of middleman_requested.
ReviewedUser_KeepsRequested(user, action, adminId) ==
    LET promoted == [user EXCEPT !.role = "middleman"]
    IN IF action = "approve"
       THEN [promoted EXCEPT !.role_history =
                Append(@, RoleHistoryEntry(promoted, adminId))]
       ELSE user

\* ReviewedUser promoting whatever the action.
ReviewedUser_AlwaysPromotes(user, action, adminId) ==
    LET promoted == [user EXCEPT !.role = "middleman"]
    IN [promoted EXCEPT !.role_history =
           Append(@, RoleHistoryEntry(promoted, adminId)),
                        !.middleman_requested = FALSE]

\* The user document as the handler leaves it in memory before user.save().
ReviewedUser(user, action, adminId) ==
    LET promoted == [user EXCEPT !.role = "middleman"]
        withRole == IF action = "approve"
                    THEN [promoted EXCEPT !.role_history =
                             Append(@, RoleHistoryEntry(promoted, adminId))]
                    ELSE user
    IN [withRole EXCEPT !.middleman_requested = FALSE]

\* User.findById returns: 404 when the applicant is gone, else the user is
\* changed in memory and its save is awaited.
ReviewFindUser(p) ==
    LET r == mreq[p]
        user == users[r.application.user_id]
    IN
    /\ r.pc = "r_findUser"
    /\ mreq' = [mreq EXCEPT ![p] =
          IF ~user.exists THEN Respond(r, 404, "User not found")
          ELSE [r EXCEPT !.user = ReviewedUser(user, r.action, r.adminId),
                         !.pc = "r_userSave"]]
    /\ UNCHANGED <<users, apps, documents, mpre, voteVars, auxVars>>

\* user.save() writes the user document; the handler answers 200.
ReviewUserSave(p) ==
    LET r == mreq[p] IN
    /\ r.pc = "r_userSave"
    /\ users' = [users EXCEPT ![r.application.user_id] = r.user]
    /\ mreq' = [mreq EXCEPT ![p] = Respond(r, 200, "")]
    /\ UNCHANGED <<apps, documents, mpre, voteVars, auxVars>>

\* An await throws (the store is unreachable, a save is refused): the catch
\* answers 500 and nothing written so far is undone.
ReviewThrows(p) ==
    LET r == mreq[p] IN
    /\ r.pc \in {"r_findById", "r_appSave", "r_findUser", "r_userSave"}
    /\ mreq' = [mreq EXCEPT ![p] =
                  Respond(r, 500, "Failed to process application review")]
    /\ UNCHANGED <<users, apps, documents, mpre, voteVars, auxVars>>

\* A user record is deleted (hard delete, no tombstone).
DeleteUser(p, u) ==
    /\ Free(p)
    /\ users[u].exists
    /\ users' = [users EXCEPT ![u] = NoUser]
    /\ mreq' = [mreq EXCEPT ![p] =
                  Respond([IdleReq EXCEPT !.kind = "deleteUser", !.userId = u], 200, "")]
    /\ mpre' = [mpre EXCEPT ![p] = [users |-> users, apps |-> apps,
                                     documents |-> documents]]
    /\ UNCHANGED <<apps, documents, voteVars, auxVars>>

\* ------------------------------------------------------------ vote toggle
\* The vote controllers of trades, forum posts and events share one contract
\* (spec 4.1); their source is not among the repository's files here.
Directions == {"up", "down"}
Votable == {"forum", "trade", "event"}

Member(list, u) == \E i \in 1..Len(list) : list[i] = u
Remove(list, u) == SelectSeq(list, LAMBDA x : x # u)
Opposite(d) == IF d = "up" THEN "down" ELSE "up"

\* Toggle with the flip adding the actor without the removal from the
\* opposite list.
Toggle_KeepsOpposite(up, down, u, d) ==
    LET same == IF d = "up" THEN up ELSE down
        other == IF d = "up" THEN down ELSE up
        same2 == IF Member(same, u) THEN Remove(same, u) ELSE Append(same, u)
    IN IF d = "up" THEN [upvotes |-> same2, downvotes |-> other]
       ELSE [upvotes |-> other, downvotes |-> same2]

\* Steps 2 to 4 of the contract, on the lists the handler read.
Toggle(up, down, u, d) ==
    LET same == IF d = "up" THEN up ELSE down
        other == IF d = "up" THEN down ELSE up
        same2 == IF Member(same, u) THEN Remove(same, u) ELSE Append(same, u)
        other2 == IF ~Member(same, u) /\ Member(other, u) THEN Remove(other, u)
                  ELSE other
    IN IF d = "up" THEN [upvotes |-> same2, downvotes |-> other2]
       ELSE [upvotes |-> other2, downvotes |-> same2]

\* The actor's vote state as the response reports it.
UserVoteOf(up, down, u) ==
    IF Member(up, u) THEN "up" ELSE IF Member(down, u) THEN "down" ELSE Null

IdleVote == [pc |-> "idle", userId |-> 0, direction |-> "up", fromModal |-> FALSE,
             read |-> [upvotes |-> <<>>, downvotes |-> <<>>],
             doc |-> [upvotes |-> <<>>, downvotes |-> <<>>],
             pre |-> [upvotes |-> <<>>, downvotes |-> <<>>],
             status |-> 0, upvotes |-> 0, downvotes |-> 0, userVote |-> Null]
NoPrev == [userId |-> 0, direction |-> "up", status |-> 0,
           pre |-> [upvotes |-> <<>>, downvotes |-> <<>>]]

\* A slot is free when its request was answered and, for a request of the
\* modal, the modal has handled the answer.
VFree(p) == vreq[p].pc \in {"idle", "closed"}

\* The answer of the server: to the modal when it asked, else to a caller
\* that is not modelled.
VoteRespond(r, code) ==
    [r EXCEPT !.pc = IF r.fromModal THEN "responded" ELSE "closed", !.status = code,
              !.doc = IdleVote.doc]

\* What is remembered of the request a new one replaces in slot p.
Shift(p) ==
    IF vreq[p].pc = "closed"
    THEN [userId |-> vreq[p].userId, direction |-> vreq[p].direction,
          status |-> vreq[p].status, pre |-> vreq[p].pre]
    ELSE NoPrev

\* POST /:id/vote arrives: the token check, then the await of the lookup.
VoteArrives(p, userId, d, fromModal) ==
    LET r == [IdleVote EXCEPT !.userId = userId, !.direction = d,
                              !.fromModal = fromModal,
                              !.pre = [upvotes |-> upvotes, downvotes |-> downvotes]]
    IN
    /\ VFree(p)
    /\ postType \in Votable
    /\ vprev' = Shift(p)
    /\ vreq' = [vreq EXCEPT ![p] =
                  IF userId = 0 THEN VoteRespond(r, 401)
                  ELSE [r EXCEPT !.pc = "v_find"]]

\* The lookup returns: 404, or the lists are toggled in memory and the save
\* of the document is awaited.  read is the document as loaded, doc the
\* document as the handler changed it.
VoteFind(p) ==
    LET r == vreq[p] IN
    /\ r.pc = "v_find"
    /\ vreq' = [vreq EXCEPT ![p] =
                  IF ~postExists THEN VoteRespond(r, 404)
                  ELSE [r EXCEPT !.read = [upvotes |-> upvotes, downvotes |-> downvotes],
                                 !.doc = Toggle(upvotes, downvotes, r.userId, r.direction),
                                 !.pc = "v_save"]]
    /\ UNCHANGED <<postType, postExists, upvotes, downvotes, vprev, me, modal, mmVars, auxVars>>

\* The response of a saved vote: the counts and the actor's vote, from the
\* document in the handler's memory.
VoteSaved(r) ==
    VoteRespond([r EXCEPT !.upvotes = Len(r.doc.upvotes),
                          !.downvotes = Len(r.doc.downvotes),
                          !.userVote = UserVoteOf(r.doc.upvotes, r.doc.downvotes,
                                                  r.userId)],
                200)

\* VoteSave as one atomic update of the stored lists: the toggle is applied
\* to the lists as they are at the write.
VoteSave_Atomic(p) ==
    LET r == vreq[p]
        now == Toggle(upvotes, downvotes, r.userId, r.direction)
    IN
    /\ r.pc = "v_save"
    /\ upvotes' = now.upvotes
    /\ downvotes' = now.downvotes
    /\ vreq' = [vreq EXCEPT ![p] = VoteSaved(r)]
    /\ UNCHANGED <<postType, postExists, vprev, me, modal, mmVars, auxVars>>

\* VoteSave writing both lists, changed or not.
VoteSave_WholeDocument(p) ==
    LET r == vreq[p] IN
    /\ r.pc = "v_save"
    /\ upvotes' = r.doc.upvotes
    /\ downvotes' = r.doc.downvotes
    /\ vreq' = [vreq EXCEPT ![p] = VoteSaved(r)]
    /\ UNCHANGED <<postType, postExists, vprev, me, modal, mmVars, auxVars>>

\* The save persists the resource: it writes the lists the handler changed,
\* as the save of the other documents does (ReviewAppSave), over whatever
\* the store holds by then; the response carries the counts and the actor's
\* vote.
VoteSave(p) ==
    LET r == vreq[p] IN
    /\ r.pc = "v_save"
    /\ upvotes' = IF r.doc.upvotes # r.read.upvotes THEN r.doc.upvotes ELSE upvotes
    /\ downvotes' = IF r.doc.downvotes # r.read.downvotes THEN r.doc.downvotes
                    ELSE downvotes
    /\ vreq' = [vreq EXCEPT ![p] = VoteSaved(r)]
    /\ UNCHANGED <<postType, postExists, vprev, me, modal, mmVars, auxVars>>

\* A store call of the vote handler throws.
VoteThrows(p) ==
    LET r == vreq[p] IN
    /\ r.pc \in {"v_find", "v_save"}
    /\ vreq' = [vreq EXCEPT ![p] = VoteRespond(r, 500)]
    /\ UNCHANGED <<postType, postExists, upvotes, downvotes, vprev, me, modal, mmVars, auxVars>>

\* A vote sent by a user from somewhere else than the modal.
ApiVote(p, userId, d) ==
    /\ VoteArrives(p, userId, d, FALSE)
    /\ UNCHANGED <<postType, postExists, upvotes, downvotes, me, modal, mmVars, auxVars>>

\* The post is deleted (hard delete).
DeletePost(p) ==
    /\ VFree(p)
    /\ postExists
    /\ postExists' = FALSE
    /\ upvotes' = <<>>
    /\ downvotes' = <<>>
    /\ vprev' = NoPrev
    /\ vreq' = [vreq EXCEPT ![p] = IdleVote]
    /\ UNCHANGED <<postType, me, modal, mmVars, auxVars>>

\* ------------------------------------------------------------ the modals
\* toast.success(...) of handleUpvote / handleDownvote.
VoteToast(d, userVote) ==
    IF userVote = d THEN (IF d = "up" THEN "Upvoted!" ELSE "Downvoted!")
    ELSE IF userVote = Null THEN "Vote removed!"
    ELSE (IF d = "up" THEN "Changed to upvote!" ELSE "Changed to downvote!")

\* PostModalVote without the votingLoading test.
PostModalVote_Unguarded(p, d) ==
    /\ modal.view = "PostModal"
    /\ IF postType \in Votable
       THEN /\ VoteArrives(p, me, d, TRUE)
            /\ modal' = [modal EXCEPT !.votingLoading = TRUE]
       ELSE /\ VFree(p)
            /\ modal' = [modal EXCEPT !.votingLoading = FALSE,
                                      !.toast = "Voting not available for this post type"]
            /\ UNCHANGED <<vreq, vprev>>
    /\ UNCHANGED <<postType, postExists, upvotes, downvotes, me, mmVars, auxVars>>

\* PostModal.handleUpvote / handleDownvote up to the await of the request.
PostModalVote(p, d) ==
    /\ modal.view = "PostModal"
    /\ ~modal.votingLoading
    /\ IF postType \in Votable
       THEN /\ VoteArrives(p, me, d, TRUE)
            /\ modal' = [modal EXCEPT !.votingLoading = TRUE]
       ELSE \* return from the try block; finally resets votingLoading
            /\ VFree(p)
            /\ modal' = [modal EXCEPT !.votingLoading = FALSE,
                                      !.toast = "Voting not available for this post type"]
            /\ UNCHANGED <<vreq, vprev>>
    /\ UNCHANGED <<postType, postExists, upvotes, downvotes, me, mmVars, auxVars>>

\* PostModalVoted without the setDownvotes call.
PostModalVoted_StaleDownvotes(m, r) ==
    IF r.status = 200
    THEN [m EXCEPT !.upvotes = r.upvotes,
                   !.userVote = r.userVote, !.hasVoted = (r.userVote # Null),
                   !.toast = VoteToast(r.direction, r.userVote),
                   !.votingLoading = FALSE]
    ELSE [m EXCEPT !.toast = "error", !.votingLoading = FALSE]

\* PostModal.handleUpvote / handleDownvote from the response on: the state
\* setters after the await, the catch, the finally.
PostModalVoted(m, r) ==
    IF r.status = 200
    THEN [m EXCEPT !.upvotes = r.upvotes, !.downvotes = r.downvotes,
                   !.userVote = r.userVote, !.hasVoted = (r.userVote # Null),
                   !.toast = VoteToast(r.direction, r.userVote),
                   !.votingLoading = FALSE]
    ELSE [m EXCEPT !.toast = "error", !.votingLoading = FALSE]

PostModalVoteDone(p) ==
    /\ modal.view = "PostModal"
    /\ vreq[p].pc = "responded"
    /\ modal' = PostModalVoted(modal, vreq[p])
    /\ vreq' = [vreq EXCEPT ![p].pc = "closed"]
    /\ UNCHANGED <<postType, postExists, upvotes, downvotes, vprev, me, mmVars, auxVars>>

\* TradeDetailsModal.handleUpvote / handleDownvote up to the await.
TradeModalVote(p, d) ==
    /\ modal.view = "TradeDetailsModal"
    /\ ~modal.votingLoading
    /\ IF me = 0
       THEN \* apiService.isAuthenticated() is false
            /\ VFree(p)
            /\ modal' = [modal EXCEPT !.toast = "Please log in to vote"]
            /\ UNCHANGED <<vreq, vprev>>
       ELSE /\ VoteArrives(p, me, d, TRUE)
            /\ modal' = [modal EXCEPT !.votingLoading = TRUE]
    /\ UNCHANGED <<postType, postExists, upvotes, downvotes, me, mmVars, auxVars>>

\* TradeModalVoted taking the vote from the button pressed, not the response.
TradeModalVoted_Optimistic(m, r) ==
    IF r.status = 200
    THEN [m EXCEPT !.upvotes = r.upvotes, !.downvotes = r.downvotes,
                   !.userVote = r.direction,
                   !.toast = VoteToast(r.direction, r.direction),
                   !.votingLoading = FALSE]
    ELSE [m EXCEPT !.toast = "error", !.votingLoading = FALSE]

\* TradeModalVoted with the two counts exchanged.
TradeModalVoted_SwappedCounts(m, r) ==
    IF r.status = 200
    THEN [m EXCEPT !.upvotes = r.downvotes, !.downvotes = r.upvotes,
                   !.userVote = r.userVote,
                   !.toast = VoteToast(r.direction, r.userVote),
                   !.votingLoading = FALSE]
    ELSE [m EXCEPT !.toast = "error", !.votingLoading = FALSE]

\* TradeDetailsModal.handleUpvote / handleDownvote from the response on.
TradeModalVoted(m, r) ==
    IF r.status = 200
    THEN [m EXCEPT !.upvotes = r.upvotes, !.downvotes = r.downvotes,
                   !.userVote = r.userVote,
                   !.toast = VoteToast(r.direction, r.userVote),
                   !.votingLoading = FALSE]
    ELSE [m EXCEPT !.toast = "error", !.votingLoading = FALSE]

TradeModalVoteDone(p) ==
    /\ modal.view = "TradeDetailsModal"
    /\ vreq[p].pc = "responded"
    /\ modal' = TradeModalVoted(modal, vreq[p])
    /\ vreq' = [vreq EXCEPT ![p].pc = "closed"]
    /\ UNCHANGED <<postType, postExists, upvotes, downvotes, vprev, me, mmVars, auxVars>>

\* -------------------------------------------------------------- comments
\* A comment's text is a string of blanks and letters.
Chars == {" ", "x"}
Texts == UNION {[1..n -> Chars] : n \in 0..MaxText}

\* String.prototype.trim(): the blanks at both ends removed.
RECURSIVE TrimStart(_)
TrimStart(t) == IF t # <<>> /\ Head(t) = " " THEN TrimStart(Tail(t)) ELSE t
RECURSIVE TrimEnd(_)
TrimEnd(t) ==
    IF t # <<>> /\ t[Len(t)] = " " THEN TrimEnd(SubSeq(t, 1, Len(t) - 1)) ELSE t
Trim(t) == TrimEnd(TrimStart(t))

NoComment == [author |-> 0, content |-> <<>>, local |-> FALSE]
IdleComment == [pc |-> "idle", author |-> 0, content |-> <<>>, status |-> 0,
                comment |-> NoComment]

InitComments ==
    /\ comments = <<>>
    /\ creq = IdleComment

\* onChange of the comment input, which is disabled during a submit.
TypeComment(t) ==
    /\ ~modal.submittingComment
    /\ modal' = [modal EXCEPT !.newComment = t]
    /\ UNCHANGED <<postType, postExists, upvotes, downvotes, vreq, vprev, me,
                   cmtVars, gateVars, authVars, clientVars, mmVars>>

\* CommentGuard comparing the text with the empty string, untrimmed.
CommentGuard_Untrimmed(m) == m.newComment = <<>> \/ m.submittingComment

\* The first line of handleAddComment / handleComment: TRUE when the handler
\* returns at once (the modal is open, so its post is set).
CommentGuard(m) == Trim(m.newComment) = <<>> \/ m.submittingComment

\* The request leaves the browser and reaches the comment route, whose
\* token check answers 401 to a caller that is not logged in.
CommentSent(m) ==
    LET r == [IdleComment EXCEPT !.author = me, !.content = m.newComment]
    IN IF me = 0 THEN [r EXCEPT !.pc = "responded", !.status = 401]
       ELSE [r EXCEPT !.pc = "c_find"]

\* TradeDetailsModal.handleAddComment up to the await of the request.
\* submits counts the calls of the handler, modulo 2.
TradeModalAddComment ==
    /\ modal.view = "TradeDetailsModal"
    /\ creq.pc \in {"idle", "closed"} \/ modal.submittingComment
    /\ IF CommentGuard(modal)
       THEN /\ modal' = [modal EXCEPT !.submits = 1 - @]
            /\ UNCHANGED creq
       ELSE /\ Len(comments) < MaxComments
            /\ modal' = [modal EXCEPT !.submits = 1 - @, !.submittingComment = TRUE]
            /\ creq' = CommentSent(modal)
    /\ UNCHANGED <<postType, postExists, upvotes, downvotes, vreq, vprev, me,
                   comments, gateVars, authVars, clientVars, mmVars>>

\* The comment the fallback branch of handleComment makes up for a post that
\* is neither a forum post, a trade nor an event.
LocalComment(m) == [author |-> me, content |-> m.newComment, local |-> TRUE]

\* PostModal.handleComment up to the await of the request; for a post of
\* another type, the whole handler.
PostModalComment ==
    /\ modal.view = "PostModal"
    /\ creq.pc \in {"idle", "closed"} \/ modal.submittingComment
    /\ IF CommentGuard(modal)
       THEN /\ modal' = [modal EXCEPT !.submits = 1 - @]
            /\ UNCHANGED creq
       ELSE IF postType \in Votable
       THEN /\ Len(comments) < MaxComments
            /\ modal' = [modal EXCEPT !.submits = 1 - @, !.submittingComment = TRUE]
            /\ creq' = CommentSent(modal)
       ELSE /\ Len(modal.comments) < MaxComments
            /\ modal' = [modal EXCEPT !.submits = 1 - @,
                                      !.comments = <<LocalComment(modal)>> \o @,
                                      !.newComment = <<>>,
                                      !.toast = "Comment added!",
                                      !.submittingComment = FALSE]
            /\ UNCHANGED creq
    /\ UNCHANGED <<postType, postExists, upvotes, downvotes, vreq, vprev, me,
                   comments, gateVars, authVars, clientVars, mmVars>>

\* The comment handler of the server looks the post up.
CommentFind ==
    /\ creq.pc = "c_find"
    /\ creq' = IF ~postExists THEN [creq EXCEPT !.pc = "responded", !.status = 404]
               ELSE [creq EXCEPT !.pc = "c_save"]
    /\ UNCHANGED <<comments, gateVars, authVars, clientVars, voteVars, mmVars>>

\* The comment is appended to the post's comments and the post is saved;
\* the response carries the new comment.
CommentSave ==
    LET c == [author |-> creq.author, content |-> creq.content, local |-> FALSE]
    IN
    /\ creq.pc = "c_save"
    /\ comments' = Append(comments, c)
    /\ creq' = [creq EXCEPT !.pc = "responded", !.status = 200, !.comment = c]
    /\ UNCHANGED <<gateVars, authVars, clientVars, voteVars, mmVars>>

\* A store call of the comment handler throws.
CommentThrows ==
    /\ creq.pc \in {"c_find", "c_save"}
    /\ creq' = [creq EXCEPT !.pc = "responded", !.status = 500]
    /\ UNCHANGED <<comments, gateVars, authVars, clientVars, voteVars, mmVars>>

\* TradeDetailsModal.handleAddComment from the response on.
TradeModalCommented(m, r) ==
    IF r.status = 200
    THEN [m EXCEPT !.comments = <<r.comment>> \o @, !.newComment = <<>>,
                   !.toast = "Comment added!", !.submittingComment = FALSE]
    ELSE [m EXCEPT !.toast = "Failed to add comment", !.submittingComment = FALSE]

TradeModalCommentDone ==
    /\ modal.view = "TradeDetailsModal"
    /\ creq.pc = "responded"
    /\ modal' = TradeModalCommented(modal, creq)
    /\ creq' = [creq EXCEPT !.pc = "closed"]
    /\ UNCHANGED <<postType, postExists, upvotes, downvotes, vreq, vprev, me,
                   comments, gateVars, authVars, clientVars, mmVars>>

\* PostModal.handleComment from the response on.
PostModalCommented(m, r) ==
    IF r.status = 200
    THEN [m EXCEPT !.comments = <<r.comment>> \o @, !.newComment = <<>>,
                   !.toast = "Comment added!", !.submittingComment = FALSE]
    ELSE [m EXCEPT !.toast = IF r.status = 404 THEN "Post not found"
                             ELSE "Failed to add comment",
                   !.submittingComment = FALSE]

PostModalCommentDone ==
    /\ modal.view = "PostModal"
    /\ creq.pc = "responded"
    /\ modal' = PostModalCommented(modal, creq)
    /\ creq' = [creq EXCEPT !.pc = "closed"]
    /\ UNCHANGED <<postType, postExists, upvotes, downvotes, vreq, vprev, me,
                   comments, gateVars, authVars, clientVars, mmVars>>

\* ------------------------------------------------------------ auth router
KeepTokens == 5                         \* user.tokens.slice(-5)
Passwords == {"", "short", "secret1", "secret2"}
GoodPassword == "secret1"               \* the password every account registers

\* jwt.sign of { userId, username, role } with the time of issue: two tokens
\* signed for one user within one second are the same string.
Sign(u, now) == <<u, now>>

\* KeepLast keeping the head of the list instead.
KeepLast_First(list, n) == IF Len(list) > n THEN SubSeq(list, 1, n) ELSE list

\* list.slice(-n) when the list is longer than n.
KeepLast(list, n) ==
    IF Len(list) > n THEN SubSeq(list, Len(list) - n + 1, Len(list)) ELSE list

\* Without dropping every token.
Without_All(list, token) == <<>>

\* list.filter(t => t.token !== token)
Without(list, token) == SelectSeq(list, LAMBDA t : t # token)

IdleAuth == [pc |-> "idle", kind |-> "none", user |-> 0, password |-> "",
             token |-> <<>>, doc |-> <<>>, status |-> 0,
             username |-> <<>>, email |-> <<>>, existing |-> 0, pre |-> <<>>]

\* The number of tokens issued to the users of S and not logged out since.
RECURSIVE Issued(_)
Issued(S) ==
    IF S = {} THEN 0
    ELSE LET u == CHOOSE v \in S : TRUE IN Len(live[u]) + Issued(S \ {u})

AuthFree == areq.pc \in {"idle", "done"}
AuthRespond(r, code) == [r EXCEPT !.pc = "done", !.status = code, !.doc = <<>>]

OtherFrame ==
    UNCHANGED <<apps, documents, mreq, mpre, voteVars, cmtVars, gateVars, clientVars>>
AuthFrame == OtherFrame /\ UNCHANGED acctVars

\* POST /register: the validations, then the await of findOne.  u is the
\* account the username and email name, 0 when one of the fields is missing.
Register(u, password) ==
    LET r == [IdleAuth EXCEPT !.kind = "register", !.user = u, !.password = password]
    IN
    /\ AuthFree
    /\ Issued(Users) < MaxIssues
    /\ areq' = IF u = 0 \/ password = "" THEN AuthRespond(r, 400)
               ELSE IF password = "short" THEN AuthRespond(r, 400)
               ELSE [r EXCEPT !.pc = "g_findOne"]
    /\ UNCHANGED <<users, tokens, live, clock>>
    /\ AuthFrame

\* findOne returns: the name is taken, or the password is hashed.
RegisterFindOne ==
    /\ areq.pc = "g_findOne"
    /\ areq' = IF users[areq.user].exists THEN AuthRespond(areq, 400)
               ELSE [areq EXCEPT !.pc = "g_hash"]
    /\ UNCHANGED <<users, tokens, live, clock>>
    /\ AuthFrame

\* bcrypt.hash returns; the first user.save() is awaited.
RegisterHash ==
    /\ areq.pc = "g_hash"
    /\ areq' = [areq EXCEPT !.pc = "g_save"]
    /\ UNCHANGED <<users, tokens, live, clock>>
    /\ AuthFrame

\* The user is inserted; the token is signed and pushed, the list cut to
\* its last five, and the second user.save() is awaited.
RegisterSave ==
    LET token == Sign(areq.user, clock) IN
    /\ areq.pc = "g_save"
    /\ users' = [users EXCEPT ![areq.user] =
                    [exists |-> TRUE, role |-> "user", role_history |-> <<>>,
                     middleman_requested |-> FALSE]]
    /\ tokens' = [tokens EXCEPT ![areq.user] = <<>>]
    /\ areq' = [areq EXCEPT !.token = token,
                            !.doc = KeepLast(Append(<<>>, token), KeepTokens),
                            !.pc = "g_saveTokens"]
    /\ UNCHANGED <<live, clock>>
    /\ AuthFrame

\* The second save stores the tokens; 201 with the token.
RegisterSaveTokens ==
    /\ areq.pc = "g_saveTokens"
    /\ tokens' = [tokens EXCEPT ![areq.user] = areq.doc]
    /\ live' = [live EXCEPT ![areq.user] = Append(@, areq.token)]
    /\ areq' = AuthRespond(areq, 201)
    /\ UNCHANGED <<users, clock>>
    /\ AuthFrame

\* LoginRefusal answering 403 for a banned account alone.
LoginRefusal_BannedOnly(role, active) == IF role = "banned" THEN 403 ELSE 0

\* The checks between the lookup and the password comparison of a login, in
\* the router and in the controller alike: the status of the refusal, 0 when
\* the account may log in.
LoginRefusal(role, active) ==
    IF role = "banned" THEN 403
    ELSE IF ~active THEN 403
    ELSE 0

\* POST /login: the validation, then the await of findOne.
Login(u, password) ==
    LET r == [IdleAuth EXCEPT !.kind = "login", !.user = u, !.password = password]
    IN
    /\ AuthFree
    /\ Issued(Users) < MaxIssues
    /\ areq' = IF u = 0 \/ password = "" THEN AuthRespond(r, 400)
               ELSE [r EXCEPT !.pc = "l_findOne"]
    /\ UNCHANGED <<users, tokens, live, clock>>
    /\ AuthFrame

\* findOne returns the user with its tokens: unknown, banned, or the
\* password is compared.
LoginFindOne ==
    /\ areq.pc = "l_findOne"
    /\ areq' = IF ~users[areq.user].exists THEN AuthRespond(areq, 401)
               ELSE IF LoginRefusal(users[areq.user].role, is_active[areq.user]) # 0
               THEN AuthRespond(areq, LoginRefusal(users[areq.user].role,
                                                   is_active[areq.user]))
               ELSE [areq EXCEPT !.doc = tokens[areq.user], !.pc = "l_compare"]
    /\ UNCHANGED <<users, tokens, live, clock>>
    /\ AuthFrame

\* bcrypt.compare returns: wrong password, or the token is signed and
\* pushed, the list cut to its last five, and user.save() is awaited.
LoginCompare ==
    LET token == Sign(areq.user, clock) IN
    /\ areq.pc = "l_compare"
    /\ areq' = IF areq.password # GoodPassword THEN AuthRespond(areq, 401)
               ELSE [areq EXCEPT !.token = token,
                                 !.doc = KeepLast(Append(areq.doc, token), KeepTokens),
                                 !.pc = "l_save"]
    /\ UNCHANGED <<users, tokens, live, clock>>
    /\ AuthFrame

\* The save stores the tokens; 200 with the token.
LoginSave ==
    /\ areq.pc = "l_save"
    /\ tokens' = [tokens EXCEPT ![areq.user] = areq.doc]
    /\ live' = [live EXCEPT ![areq.user] = Append(@, areq.token)]
    /\ areq' = AuthRespond(areq, 200)
    /\ UNCHANGED <<users, clock>>
    /\ AuthFrame

\* POST /logout with a token issued to u that authenticateToken accepts;
\* the await of findById.
Logout(u, token) ==
    /\ AuthFree
    /\ areq' = [IdleAuth EXCEPT !.kind = "logout", !.user = u, !.token = token,
                                !.pc = "o_findById"]
    /\ UNCHANGED <<users, tokens, live, clock>>
    /\ AuthFrame

\* findById returns: the token is filtered out of the user's tokens and the
\* save is awaited; without a user the handler answers at once.
LogoutFindById ==
    /\ areq.pc = "o_findById"
    /\ areq' = IF users[areq.user].exists
               THEN [areq EXCEPT !.doc = Without(tokens[areq.user], areq.token),
                                 !.pc = "o_save"]
               ELSE AuthRespond(areq, 200)
    /\ UNCHANGED <<users, tokens, live, clock>>
    /\ AuthFrame

LogoutSave ==
    /\ areq.pc = "o_save"
    /\ tokens' = [tokens EXCEPT ![areq.user] = areq.doc]
    /\ live' = [live EXCEPT ![areq.user] = Without(@, areq.token)]
    /\ areq' = AuthRespond(areq, 200)
    /\ UNCHANGED <<users, clock>>
    /\ AuthFrame

\* An await of the auth router throws: the catch answers 500.
AuthThrows ==
    /\ ~AuthFree
    /\ areq' = AuthRespond(areq, 500)
    /\ UNCHANGED <<users, tokens, live, clock>>
    /\ AuthFrame

\* A second passes.
Tick ==
    /\ clock < MaxClock
    /\ clock' = clock + 1
    /\ UNCHANGED <<users, tokens, live, areq>>
    /\ AuthFrame

\* --------------------------------------------------------- authController
\* Usernames, emails and login identifiers are sequences of characters; "."
\* is the one character of these that new RegExp reads as a metacharacter.
Usernames == {<<"a", "b">>, <<"A", "b">>, <<"a", ".">>}
Emails == {<<"e">>, <<"E">>, <<"f">>}

\* String.prototype.toLowerCase
ToLowerCase(s) ==
    [i \in 1..Len(s) |-> IF s[i] = "A" THEN "a" ELSE IF s[i] = "E" THEN "e" ELSE s[i]]

\* new RegExp(`^${pattern}$`, 'i').test(s): the pattern's "." matches any
\* character, every other character matches itself in either case.
RegExpTest(pattern, s) ==
    /\ Len(pattern) = Len(s)
    /\ \A i \in 1..Len(s) :
          \/ pattern[i] = "."
          \/ ToLowerCase(pattern)[i] = ToLowerCase(s)[i]

\* new User({ username, email, role: 'user', is_active: true, ... })
NewUser(username, email) ==
    [username |-> username, email |-> email, role |-> "user", is_active |-> TRUE,
     tokens |-> <<>>, lastLogin |-> Null]

\* The documents the $or of register's findOne selects.
RegisterMatches(username, email) ==
    {i \in 1..Len(userDocs) :
        \/ userDocs[i].email = ToLowerCase(email)
        \/ RegExpTest(username, userDocs[i].username)}

\* The documents the $or of login's findOne selects.
LoginMatches(identifier) ==
    {i \in 1..Len(userDocs) :
        \/ RegExpTest(identifier, userDocs[i].username)
        \/ userDocs[i].email = ToLowerCase(identifier)}

\* The tokens stored in the User documents.
RECURSIVE StoredTokens(_)
StoredTokens(n) == IF n = 0 THEN 0 ELSE Len(userDocs[n].tokens) + StoredTokens(n - 1)

\* The controller leaves the router's collections alone.
ControllerFrame == UNCHANGED <<users, tokens, live, clock, is_active>> /\ OtherFrame

\* authController.register: the validations, then the await of findOne.
ControllerRegister(username, email, password) ==
    LET r == [IdleAuth EXCEPT !.kind = "c_register", !.username = username,
                              !.email = email, !.password = password,
                              !.pre = userDocs]
    IN
    /\ AuthFree
    /\ Len(userDocs) < MaxUserDocs
    /\ StoredTokens(Len(userDocs)) < MaxSessions
    /\ areq' = IF username = <<>> \/ email = <<>> \/ password = ""
               THEN AuthRespond(r, 400)
               ELSE IF password = "short" THEN AuthRespond(r, 400)
               ELSE [r EXCEPT !.pc = "cr_findOne"]
    /\ UNCHANGED userDocs
    /\ ControllerFrame

\* The rest of authController.register, from one await to the next.  findOne
\* returns any one of the documents its query selects; the unique indexes of
\* username and email refuse a save that repeats either (error code 11000).
ControllerRegisterStep ==
    /\ areq.kind = "c_register"
    /\ \/ /\ areq.pc = "cr_findOne"
          /\ \/ /\ RegisterMatches(areq.username, areq.email) = {}
                /\ areq' = [areq EXCEPT !.pc = "cr_hash"]
             \/ \E i \in RegisterMatches(areq.username, areq.email) :
                   LET existingUser == userDocs[i]
                       found == [areq EXCEPT !.existing = i]
                   IN areq' =
                        IF existingUser.email = ToLowerCase(areq.email)
                        THEN AuthRespond(found, 400)
                        ELSE IF ToLowerCase(existingUser.username)
                                = ToLowerCase(areq.username)
                        THEN AuthRespond(found, 400)
                        ELSE [found EXCEPT !.pc = "cr_hash"]
          /\ UNCHANGED userDocs
       \/ /\ areq.pc = "cr_hash"
          /\ areq' = [areq EXCEPT !.pc = "cr_save"]
          /\ UNCHANGED userDocs
       \/ /\ areq.pc = "cr_save"
          /\ IF \E i \in 1..Len(userDocs) :
                   \/ userDocs[i].username = areq.username
                   \/ userDocs[i].email = ToLowerCase(areq.email)
             THEN /\ areq' = AuthRespond(areq, 400)
                  /\ UNCHANGED userDocs
             ELSE /\ userDocs' = Append(userDocs, NewUser(areq.username,
                                                         ToLowerCase(areq.email)))
                  /\ areq' = [areq EXCEPT !.user = Len(userDocs) + 1,
                                          !.token = Sign(Len(userDocs) + 1, clock),
                                          !.pc = "cr_saveTokens"]
       \/ /\ areq.pc = "cr_saveTokens"
          /\ userDocs' = [userDocs EXCEPT ![areq.user].tokens = Append(@, areq.token)]
          /\ areq' = AuthRespond(areq, 201)
    /\ ControllerFrame

\* authController.login: the validation, then the await of findOne.
ControllerLogin(identifier, password) ==
    LET r == [IdleAuth EXCEPT !.kind = "c_login", !.username = identifier,
                              !.password = password, !.pre = userDocs]
    IN
    /\ AuthFree
    /\ StoredTokens(Len(userDocs)) < MaxSessions
    /\ areq' = IF identifier = <<>> \/ password = "" THEN AuthRespond(r, 400)
               ELSE [r EXCEPT !.pc = "cl_findOne"]
    /\ UNCHANGED userDocs
    /\ ControllerFrame

\* The rest of authController.login: the account is unknown, banned or
\* deactivated, the password is wrong, or the token is signed, pushed and
\* saved with the time of the login.
ControllerLoginStep ==
    /\ areq.kind = "c_login"
    /\ \/ /\ areq.pc = "cl_findOne"
          /\ \/ /\ LoginMatches(areq.username) = {}
                /\ areq' = AuthRespond(areq, 401)
             \/ \E i \in LoginMatches(areq.username) :
                   LET user == userDocs[i]
                       found == [areq EXCEPT !.user = i]
                   IN areq' =
                        IF LoginRefusal(user.role, user.is_active) # 0
                        THEN AuthRespond(found, LoginRefusal(user.role, user.is_active))
                        ELSE [found EXCEPT !.pc = "cl_compare"]
          /\ UNCHANGED userDocs
       \/ /\ areq.pc = "cl_compare"
          /\ areq' = IF areq.password # GoodPassword THEN AuthRespond(areq, 401)
                     ELSE [areq EXCEPT !.token = Sign(areq.user, clock),
                                       !.pc = "cl_save"]
          /\ UNCHANGED userDocs
       \/ /\ areq.pc = "cl_save"
          /\ userDocs' = [userDocs EXCEPT
                             ![areq.user].tokens = Append(@, areq.token),
                             ![areq.user].lastLogin = areq.token[2]]
          /\ areq' = AuthRespond(areq, 200)
    /\ ControllerFrame

\* authController.logout of the account with _id i, with a token signed for
\* it in the Authorization header; the await of findById.
ControllerLogout(i, token) ==
    /\ AuthFree
    /\ i \in 1..Len(userDocs)
    /\ areq' = [IdleAuth EXCEPT !.kind = "c_logout", !.user = i, !.token = token,
                                !.pre = userDocs, !.pc = "co_findById"]
    /\ UNCHANGED userDocs
    /\ ControllerFrame

\* findById returns the user: the token is filtered out of its tokens and
\* the save is awaited; the save stores them.
ControllerLogoutStep ==
    /\ areq.kind = "c_logout"
    /\ \/ /\ areq.pc = "co_findById"
          /\ areq' = [areq EXCEPT !.doc = Without(userDocs[areq.user].tokens,
                                                  areq.token),
                                  !.pc = "co_save"]
          /\ UNCHANGED userDocs
       \/ /\ areq.pc = "co_save"
          /\ userDocs' = [userDocs EXCEPT ![areq.user].tokens = areq.doc]
          /\ areq' = AuthRespond(areq, 200)
    /\ ControllerFrame

\* authController.logoutAll of the account with _id i; the await of findById.
LogoutAll(i) ==
    /\ AuthFree
    /\ i \in 1..Len(userDocs)
    /\ areq' = [IdleAuth EXCEPT !.kind = "c_logoutAll", !.user = i,
                                !.pre = userDocs, !.pc = "ca_findById"]
    /\ UNCHANGED userDocs
    /\ ControllerFrame

\* findById returns the user: its tokens are emptied and saved.
LogoutAllStep ==
    /\ areq.kind = "c_logoutAll"
    /\ \/ /\ areq.pc = "ca_findById"
          /\ areq' = [areq EXCEPT !.pc = "ca_save"]
          /\ UNCHANGED userDocs
       \/ /\ areq.pc = "ca_save"
          /\ userDocs' = [userDocs EXCEPT ![areq.user].tokens = <<>>]
          /\ areq' = AuthRespond(areq, 200)
    /\ ControllerFrame

\* ------------------------------------------------------------- frontend
\* The server's collections and the other components stay as they are.
ServerFrame == UNCHANGED <<mmVars, voteVars, cmtVars, gateVars, authVars>>

\* ImageDisplay of the trading hub.  img is the <img> element: loading its
\* src, loaded, failed, or not rendered ("none") while the fallback shows;
\* timer is the pending setTimeout of handleImageError.  failures counts the
\* failed loads since the mount or the last manual Retry, retried tells that
\* Retry was pressed.
NewImage == [imageError |-> FALSE, imageLoading |-> TRUE, retryCount |-> 0,
             img |-> "loading", timer |-> FALSE, failures |-> 0, retried |-> FALSE]

\* handleImageError scheduling a retry whatever the retry count.
handleImageError_AlwaysRetries(i) == [i EXCEPT !.timer = TRUE, !.img = "failed"]

\* handleImageError: a retry in a second after the first and after the
\* second failure, the error state after the third.
handleImageError(i) ==
    IF i.retryCount = 0 THEN [i EXCEPT !.timer = TRUE, !.img = "failed"]
    ELSE IF i.retryCount = 1 THEN [i EXCEPT !.timer = TRUE, !.img = "failed"]
    ELSE [i EXCEPT !.imageLoading = FALSE, !.imageError = TRUE, !.img = "none"]

\* onError of the <img>.
ImageFails ==
    /\ image.img = "loading"
    /\ image' = [handleImageError(image) EXCEPT !.failures = @ + 1]
    /\ UNCHANGED <<editor, viewer, profile>>
    /\ ServerFrame

\* The setTimeout callback: the retry count grows, which changes the src
\* of the <img> and makes it load again.
ImageRetryTimer ==
    /\ image.timer
    /\ image' = [image EXCEPT !.retryCount = @ + 1, !.imageError = FALSE,
                              !.imageLoading = TRUE, !.timer = FALSE,
                              !.img = "loading"]
    /\ UNCHANGED <<editor, viewer, profile>>
    /\ ServerFrame

\* onLoad of the <img>.
handleImageLoad ==
    /\ image.img = "loading"
    /\ image' = [image EXCEPT !.imageLoading = FALSE, !.imageError = FALSE,
                              !.img = "loaded"]
    /\ UNCHANGED <<editor, viewer, profile>>
    /\ ServerFrame

\* The Retry button of the fallback.
handleRetry ==
    /\ image.imageError
    /\ image' = [image EXCEPT !.retryCount = 0, !.imageError = FALSE,
                              !.imageLoading = TRUE, !.img = "loading",
                              !.failures = 0, !.retried = TRUE]
    /\ UNCHANGED <<editor, viewer, profile>>
    /\ ServerFrame

\* TradingHub: trade t belongs to user t.  A currentUser with id 0 stands
\* for null; edited is the trade the edit action last ran on.
Trades == Users
CurrentUsers ==
    {[id |-> 0, role |-> "none"]} \cup
    [id : Users, role : {"user", "moderator", "admin"}]

NewEditor(c) == [currentUser |-> c, selectedTrade |-> 0, isTradeDetailsOpen |-> FALSE,
                 editingTrade |-> 0, isEditDialogOpen |-> FALSE, toast |-> "",
                 edited |-> 0]

canEditTrade(e, t) ==
    /\ e.currentUser.id # 0
    /\ \/ e.currentUser.id = t
       \/ e.currentUser.role = "admin"
       \/ e.currentUser.role = "moderator"

handleEditTrade(e, t) ==
    IF e.currentUser.id = 0 \/ e.currentUser.id # t
    THEN [e EXCEPT !.toast = "You can only edit your own trades", !.edited = t]
    ELSE [e EXCEPT !.editingTrade = t, !.isEditDialogOpen = TRUE, !.edited = t]

\* The Edit button of a trade card, rendered when canEditTrade(trade).
EditFromCard(t) ==
    /\ ~editor.isEditDialogOpen /\ ~editor.isTradeDetailsOpen
    /\ canEditTrade(editor, t)
    /\ editor' = handleEditTrade(editor, t)
    /\ UNCHANGED <<image, viewer, profile>>
    /\ ServerFrame

\* A trade card is clicked, no dialog covering it.
handleTradeClick(t) ==
    /\ ~editor.isEditDialogOpen /\ ~editor.isTradeDetailsOpen
    /\ editor' = [editor EXCEPT !.selectedTrade = t, !.isTradeDetailsOpen = TRUE,
                                !.edited = 0]
    /\ UNCHANGED <<image, viewer, profile>>
    /\ ServerFrame

\* The Edit button of the details modal, rendered when canEdit.
handleEditFromModal ==
    /\ editor.isTradeDetailsOpen
    /\ editor.selectedTrade # 0
    /\ canEditTrade(editor, editor.selectedTrade)
    /\ editor' = handleEditTrade([editor EXCEPT !.isTradeDetailsOpen = FALSE],
                                 editor.selectedTrade)
    /\ UNCHANGED <<image, viewer, profile>>
    /\ ServerFrame

\* A dialog is dismissed: the edit dialog, or the details modal.
CloseDialog ==
    /\ editor.isEditDialogOpen \/ editor.isTradeDetailsOpen
    /\ editor' = IF editor.isEditDialogOpen
                 THEN [editor EXCEPT !.isEditDialogOpen = FALSE, !.edited = 0]
                 ELSE [editor EXCEPT !.isTradeDetailsOpen = FALSE, !.edited = 0]
    /\ UNCHANGED <<image, viewer, profile>>
    /\ ServerFrame

\* Dashboard and PostModal.  The dashboard shows one post for each number
\* of images; post tells that selectedPost is not null, images is the number
\* of images of the selected post.
Posts == 0..MaxImages
NewViewer == [post |-> FALSE, images |-> 0, isPostModalOpen |-> FALSE,
              currentImageIndex |-> 0]

\* A post of the dashboard is clicked, the modal not covering it.
handlePostClick(n) ==
    /\ ~viewer.isPostModalOpen
    /\ viewer' = [viewer EXCEPT !.post = TRUE, !.images = n,
                                !.isPostModalOpen = TRUE]
    /\ UNCHANGED <<image, editor, profile>>
    /\ ServerFrame

handleCloseModal ==
    /\ viewer.isPostModalOpen
    /\ viewer' = [viewer EXCEPT !.post = FALSE, !.images = 0,
                                !.isPostModalOpen = FALSE]
    /\ UNCHANGED <<image, editor, profile>>
    /\ ServerFrame

handleNext(v) ==
    IF v.images > 1
    THEN [v EXCEPT !.currentImageIndex = (@ + 1) % v.images]
    ELSE v

handlePrevious(v) ==
    IF v.images > 1
    THEN [v EXCEPT !.currentImageIndex = (@ - 1 + v.images) % v.images]
    ELSE v

\* The ImageViewer shows its buttons and dots for more than one image, and
\* only if images[currentIndex] exists: rendering it throws otherwise.
ViewerButtons ==
    /\ viewer.post /\ viewer.isPostModalOpen
    /\ viewer.images > 1
    /\ viewer.currentImageIndex < viewer.images

\* The next or the previous button.
ArrowClick ==
    /\ ViewerButtons
    /\ viewer' \in {handleNext(viewer), handlePrevious(viewer)}
    /\ UNCHANGED <<image, editor, profile>>
    /\ ServerFrame

\* onNext or onPrevious called n times
RECURSIVE Repeated(_, _, _)
Repeated(v, forward, n) ==
    IF n = 0 THEN v
    ELSE Repeated(IF forward THEN handleNext(v) ELSE handlePrevious(v), forward, n - 1)

\* A navigation dot: onNext or onPrevious once for every step of distance.
DotClick(index) ==
    LET diff == index - viewer.currentImageIndex IN
    /\ ViewerButtons
    /\ index < viewer.images
    /\ viewer' = IF diff > 0 THEN Repeated(viewer, TRUE, diff)
                 ELSE Repeated(viewer, FALSE, -diff)
    /\ UNCHANGED <<image, editor, profile>>
    /\ ServerFrame

\* UserProfile.  loadingTimeoutRef holds the name of the timer last stored in
\* the ref ("null" before the first), timer the timer that is pending; skip is
\* what the closure of loadInitialData holds of the two loading flags; pc is
\* the request under way; press flips at every press of Refresh.
NewProfile == [refreshKey |-> 0, hasLoadedInitially |-> FALSE,
               loadingTimeoutRef |-> "null", timer |-> "none",
               isLoadingProfile |-> FALSE, isLoadingWishlist |-> FALSE,
               skip |-> FALSE, pc |-> "idle", press |-> FALSE, toast |-> ""]

\* The load effect, which runs at the mount and after refreshKey changed.
LoadEffect(pr) ==
    IF pr.hasLoadedInitially /\ pr.refreshKey = 0 THEN pr
    ELSE [pr EXCEPT !.timer = "load", !.loadingTimeoutRef = "load",
                    !.skip = pr.isLoadingProfile \/ pr.isLoadingWishlist]

\* The timer of the effect fires: loadInitialData up to the await of
\* getCurrentUser.
loadInitialData ==
    /\ profile.timer = "load"
    /\ profile' = IF profile.skip THEN [profile EXCEPT !.timer = "none"]
                  ELSE [profile EXCEPT !.timer = "none", !.isLoadingProfile = TRUE,
                                       !.pc = "getCurrentUser"]
    /\ UNCHANGED <<image, editor, viewer>>
    /\ ServerFrame

\* getCurrentUser returns the profile, is refused for too many requests, or
\* fails otherwise (the fallback data of the user context is shown).
GetCurrentUserReturns(outcome) ==
    /\ profile.pc = "getCurrentUser"
    /\ outcome = "too many requests" => profile.refreshKey < MaxRefresh
    /\ profile' =
         IF outcome = "ok" THEN [profile EXCEPT !.pc = "loadTradeHistory"]
         ELSE IF outcome = "too many requests"
         THEN [profile EXCEPT !.isLoadingProfile = FALSE, !.pc = "idle",
                              !.timer = "retry", !.loadingTimeoutRef = "retry"]
         ELSE [profile EXCEPT !.isLoadingProfile = FALSE, !.pc = "idle",
                              !.hasLoadedInitially = TRUE]
    /\ UNCHANGED <<image, editor, viewer>>
    /\ ServerFrame

\* loadTradeHistory returns: the profile is loaded and the wishlist load is
\* scheduled.
TradeHistoryReturns ==
    /\ profile.pc = "loadTradeHistory"
    /\ profile' = [profile EXCEPT !.isLoadingProfile = FALSE, !.pc = "idle",
                                  !.hasLoadedInitially = TRUE,
                                  !.timer = "wishlist",
                                  !.loadingTimeoutRef = "wishlist"]
    /\ UNCHANGED <<image, editor, viewer>>
    /\ ServerFrame

\* The wishlist timer fires, and later getUserWishlist returns or throws.
WishlistLoad ==
    /\ \/ /\ profile.timer = "wishlist"
          /\ profile' = [profile EXCEPT !.timer = "none", !.isLoadingWishlist = TRUE,
                                        !.pc = "getUserWishlist"]
       \/ /\ profile.pc = "getUserWishlist"
          /\ profile' = [profile EXCEPT !.isLoadingWishlist = FALSE, !.pc = "idle"]
    /\ UNCHANGED <<image, editor, viewer>>
    /\ ServerFrame

\* The retry timer after a rate-limit refusal fires: refreshKey grows and the
\* effect runs again.
ProfileRetryTimer ==
    /\ profile.timer = "retry"
    /\ profile' = LoadEffect([profile EXCEPT !.refreshKey = @ + 1])
    /\ UNCHANGED <<image, editor, viewer>>
    /\ ServerFrame

\* The Refresh button.
refreshData ==
    /\ profile' =
         IF profile.isLoadingProfile \/ profile.isLoadingWishlist
         THEN [profile EXCEPT !.press = ~@,
                              !.toast = "Data is already loading, please wait..."]
         ELSE IF profile.loadingTimeoutRef # "null"
         THEN [profile EXCEPT !.press = ~@,
                              !.toast = "Refresh already in progress, please wait..."]
         ELSE LoadEffect([profile EXCEPT !.press = ~@, !.hasLoadedInitially = FALSE,
                                         !.refreshKey = @ + 1,
                                         !.toast = "Refreshing profile data..."])
    /\ UNCHANGED <<image, editor, viewer>>
    /\ ServerFrame

\* The components as mounted: the image loading, nothing selected in the
\* hub or the dashboard, the profile's load effect run once.
InitClient ==
    /\ image = NewImage
    /\ editor = NewEditor([id |-> 0, role |-> "none"])
    /\ viewer = NewViewer
    /\ profile = LoadEffect(NewProfile)

\* ------------------------------------------------- verification router
\* The middleware module is not among the repository's files here:
\* authenticateToken refuses a request without a valid token, requireAdmin
\* one whose role it does not let through, admin alone or admin and
\* moderator (spec 4.3: the reviewer holds the admin or moderator role).
Gates == {{"admin"}, {"admin", "moderator"}}

\* req.user.role of a caller with a valid token; 'none' stands for no token.
TokenRoles == {"user", "middleman", "moderator", "admin"}

\* The accounts that call the review route, each with the role in its token.
Accounts == [admin1 |-> "admin", mod1 |-> "moderator", user1 |-> "user",
             mm1 |-> "middleman"]
Anonymous == "anonymous"
AccountRole(id) == IF id \in DOMAIN Accounts THEN Accounts[id] ELSE "none"

InitSessions ==
    /\ tokens = [u \in Users |-> <<>>]
    /\ live = [u \in Users |-> <<>>]
    /\ areq = IdleAuth
    /\ clock = 0
    /\ is_active = [u \in Users |-> TRUE]

InitAuth == InitSessions /\ userDocs = <<>>

InitAux ==
    /\ InitComments
    /\ adminGate = {"admin", "moderator"}
    /\ InitAuth
    /\ InitClient

\* Guards with every route registered above router.use(requireAdmin).
Guards_BeforeRequireAdmin(route) == <<"authenticateToken">>

\* The middleware in front of a route of the verification router, in the
\* order of registration: router.use(authenticateToken) comes first, and
\* router.use(requireAdmin) comes before every route but the first two.
Guards(route) ==
    IF route \in {"apply", "my-application"} THEN <<"authenticateToken">>
    ELSE <<"authenticateToken", "requireAdmin">>

GuardPasses(guard, role) ==
    IF guard = "authenticateToken" THEN role # "none" ELSE role \in adminGate

\* The status the first refusing middleware answers with, 0 when the
\* request reaches the route's handler.
Refusal(route, role) ==
    LET failing == {i \in 1..Len(Guards(route)) : ~GuardPasses(Guards(route)[i], role)}
        first == CHOOSE i \in failing : \A j \in failing : i <= j
    IN IF failing = {} THEN 0
       ELSE IF Guards(route)[first] = "authenticateToken" THEN 401 ELSE 403

\* A middleware answers and the handler is not called.
Refuse(p, r, code) ==
    /\ mreq' = [mreq EXCEPT ![p] = Respond([r EXCEPT !.kind = "refused"], code, "")]
    /\ mpre' = [mpre EXCEPT ![p] = [users |-> users, apps |-> apps,
                                     documents |-> documents]]
    /\ UNCHANGED <<users, apps, documents, voteVars, auxVars>>

\* POST /applications/:applicationId/review.
RouteReview(p, id, applicationId, action, reason) ==
    LET code == Refusal("review", AccountRole(id)) IN
    /\ Free(p)
    /\ IF code = 0 THEN ReviewApplication(p, applicationId, action, reason, id)
       ELSE Refuse(p, [IdleReq EXCEPT !.route = "review", !.adminId = id,
                                      !.role = AccountRole(id),
                                      !.applicationId = applicationId,
                                      !.action = action, !.reason = reason], code)

\* getActiveMiddlemen up to the await of User.find.
GetActiveMiddlemen(p, r) ==
    /\ mreq' = [mreq EXCEPT ![p] = [r EXCEPT !.kind = "middlemen", !.pc = "m_find"]]
    /\ mpre' = [mpre EXCEPT ![p] = [users |-> users, apps |-> apps,
                                     documents |-> documents]]
    /\ UNCHANGED <<users, apps, documents, voteVars, auxVars>>

\* GET /middlemen.
RouteMiddlemen(p, userId, role) ==
    LET r == [IdleReq EXCEPT !.route = "middlemen", !.userId = userId, !.role = role]
        code == Refusal("middlemen", role)
    IN
    /\ Free(p)
    /\ IF code = 0 THEN GetActiveMiddlemen(p, r) ELSE Refuse(p, r, code)

\* The list of middlemen is read and sent.
MiddlemenFound(p) ==
    /\ mreq[p].pc = "m_find"
    /\ mreq' = [mreq EXCEPT ![p] = Respond(mreq[p], 200, "")]
    /\ UNCHANGED <<users, apps, documents, mpre, voteVars, auxVars>>

\* getDocumentById up to the await of findById.
GetDocumentById(p, r) ==
    /\ mreq' = [mreq EXCEPT ![p] = [r EXCEPT !.kind = "document", !.pc = "d_findById"]]
    /\ mpre' = [mpre EXCEPT ![p] = [users |-> users, apps |-> apps,
                                     documents |-> documents]]
    /\ UNCHANGED <<users, apps, documents, voteVars, auxVars>>

\* GET /documents/:documentId; owner is the user_id of the document the id
\* names, 0 when it names none.
RouteDocument(p, userId, role, owner) ==
    LET r == [IdleReq EXCEPT !.route = "documents", !.userId = userId, !.role = role,
                             !.document = owner]
        code == Refusal("documents", role)
    IN
    /\ Free(p)
    /\ IF code = 0 THEN GetDocumentById(p, r) ELSE Refuse(p, r, code)

\* The security check of getDocumentById: TRUE when access is denied.
DocumentDenied(role, owner, userId) ==
    role # "admin" /\ role # "moderator" /\ owner # userId

\* findById returns: 404, 403, or the file is sent.
DocumentFindById(p) ==
    LET r == mreq[p] IN
    /\ r.pc = "d_findById"
    /\ mreq' = [mreq EXCEPT ![p] =
          IF r.document = 0 THEN Respond(r, 404, "Document not found")
          ELSE IF DocumentDenied(r.role, r.document, r.userId)
          THEN Respond(r, 403, "Access denied")
          ELSE Respond(r, 200, "")]
    /\ UNCHANGED <<users, apps, documents, mpre, voteVars, auxVars>>

\* The await of getActiveMiddlemen or getDocumentById throws.
GetThrows(p) ==
    LET r == mreq[p] IN
    /\ r.pc \in {"m_find", "d_findById"}
    /\ mreq' = [mreq EXCEPT ![p] =
          Respond(r, 500, IF r.pc = "m_find" THEN "Failed to fetch middlemen"
                          ELSE "Failed to retrieve document")]
    /\ UNCHANGED <<users, apps, documents, mpre, voteVars, auxVars>>

\* ------------------------------------------------------- specifications
InitMM ==
    /\ users = [u \in Users |-> [exists |-> TRUE, role |-> "user",
                                 role_history |-> <<>>,
                                 middleman_requested |-> FALSE]]
    /\ apps = <<>>
    /\ documents = 0
    /\ mreq = [p \in Procs |-> IdleReq]
    /\ mpre = [p \in Procs |-> [users |-> users, apps |-> apps,
                                documents |-> documents]]

\* The modal as useState leaves it when it opens.
NewModal(view) == [view |-> view, upvotes |-> 0, downvotes |-> 0, userVote |-> Null,
                   votingLoading |-> FALSE, hasVoted |-> FALSE, toast |-> "",
                   comments |-> <<>>, newComment |-> <<>>,
                   submittingComment |-> FALSE, submits |-> 0]

InitVoteWith(type, view, user) ==
    /\ postType = type
    /\ postExists = TRUE
    /\ upvotes = <<>>
    /\ downvotes = <<>>
    /\ vreq = [p \in Procs |-> IdleVote]
    /\ vprev = NoPrev
    /\ me = user
    /\ modal = NewModal(view)

\* The verification workflow alone.
InitReview == InitMM /\ InitVoteWith("trade", "PostModal", 0) /\ InitAux

\* Voting alone: any kind of post, either modal, anybody at the browser.
InitVote ==
    /\ InitMM
    /\ \E type \in Votable \cup {"other"}, view \in {"PostModal", "TradeDetailsModal"},
          user \in Users \cup {0} :
          /\ view = "TradeDetailsModal" => type = "trade"
          /\ InitVoteWith(type, view, user)
    /\ InitAux

\* The steps of submitApplication in slot p.
SubmitStep(p) ==
    \/ SubmitFindOne(p)
    \/ SubmitDocSave(p)
    \/ SubmitDocSaveFails(p)
    \/ SubmitAppSave(p)
    \/ SubmitUpdateOne(p)
    \/ SubmitThrows(p)

\* The steps of reviewApplication in slot p.
ReviewStep(p) ==
    \/ ReviewFindById(p)
    \/ ReviewAppSave(p)
    \/ ReviewFindUser(p)
    \/ ReviewUserSave(p)
    \/ ReviewThrows(p)

\* A submission arrives in slot p.
SubmitArrives(p) ==
    \E u \in Users, f \in FieldCombos, n \in 0..MaxFiles :
        SubmitApplication(p, u, f[1], f[2], f[3], n)

\* A review arrives in slot p; only a rejection carries a reason.
ReviewArrives(p) ==
    \E i \in 1..MaxApps, act \in ReviewActions, rsn \in Reasons, adm \in Admins :
        /\ act # "reject" => rsn = Undefined
        /\ ReviewApplication(p, i, act, rsn, adm)

\* Requests handled one at a time: each runs to completion before the next.
NextReview ==
    \/ SubmitArrives(1)
    \/ ReviewArrives(1)
    \/ \E u \in Users : DeleteUser(1, u)
    \/ SubmitStep(1)
    \/ ReviewStep(1)

SpecReview == InitReview /\ [][NextReview]_vars

\* The steps of a vote request in slot p and of the modal waiting for it.
VoteStep(p) ==
    \/ VoteFind(p)
    \/ VoteSave(p)
    \/ VoteThrows(p)
    \/ PostModalVoteDone(p)
    \/ TradeModalVoteDone(p)

VoteStart(p) ==
    \/ \E u \in Users, d \in Directions : ApiVote(p, u, d)
    \/ \E d \in Directions : PostModalVote(p, d)
    \/ \E d \in Directions : TradeModalVote(p, d)
    \/ DeletePost(p)

\* Votes handled one at a time.
NextVote == VoteStart(1) \/ VoteStep(1)

SpecVote == InitVote /\ [][NextVote]_vars

\* Submissions interleaving at their awaits.
NextApply == \E p \in Procs : SubmitArrives(p) \/ SubmitStep(p)

SpecApply == InitReview /\ [][NextApply]_vars

\* The vote lists a post can hold after votes made one at a time.
VoteLists ==
    {<<>>} \cup {<<u>> : u \in Users}
           \cup {l \in Users \X Users : l[1] # l[2]}

\* Two vote requests on one post, each in a slot of its own, interleaving at
\* their awaits.
RaceProcs == {1, 2}

InitRaceLists ==
    /\ InitMM
    /\ postType = "trade"
    /\ postExists = TRUE
    /\ upvotes \in VoteLists
    /\ downvotes \in VoteLists
    /\ \A u \in Users : ~(Member(upvotes, u) /\ Member(downvotes, u))
    /\ vreq = [p \in Procs |-> IdleVote]
    /\ vprev = NoPrev
    /\ me = 0
    /\ modal = NewModal("PostModal")
    /\ InitAux

RaceVote(p) ==
    /\ vreq[p].pc = "idle"
    /\ \E u \in Users, d \in Directions : ApiVote(p, u, d)

NextRace ==
    \E p \in RaceProcs : RaceVote(p) \/ VoteFind(p) \/ VoteSave(p) \/ VoteThrows(p)

SpecRace == InitRaceLists /\ [][NextRace]_vars

\* The votes of the open modal alone: a click may send its request while
\* earlier requests are still under way, each request in a slot of its own.
NextModal ==
    \E p \in Procs :
        \/ \E d \in Directions : PostModalVote(p, d)
        \/ \E d \in Directions : TradeModalVote(p, d)
        \/ VoteStep(p)

\* A trade or a post of a kind that takes no votes is open in either modal,
\* with user 1 or nobody at the browser.
InitModal ==
    /\ InitMM
    /\ \E type \in {"trade", "other"}, view \in {"PostModal", "TradeDetailsModal"},
          user \in {0, 1} :
          /\ view = "TradeDetailsModal" => type = "trade"
          /\ InitVoteWith(type, view, user)
    /\ InitAux

SpecModal == InitModal /\ [][NextModal]_vars

\* Commenting alone, from either modal; the post may be deleted meanwhile.
NextComment ==
    \/ \E t \in Texts : TypeComment(t)
    \/ TradeModalAddComment
    \/ PostModalComment
    \/ CommentFind
    \/ CommentSave
    \/ CommentThrows
    \/ TradeModalCommentDone
    \/ PostModalCommentDone
    \/ DeletePost(1)

SpecComment == InitVote /\ [][NextComment]_vars

\* The callers of a route: a user with the role in its token, or nobody.
Callers ==
    {<<u, role>> : u \in Users, role \in TokenRoles} \cup {<<0, "none">>}

\* Requests through the verification router, handled one at a time, with
\* one application submitted and pending.
InitRouter ==
    /\ \E u \in Users :
          /\ users = [v \in Users |-> [exists |-> TRUE, role |-> "user",
                                       role_history |-> <<>>,
                                       middleman_requested |-> (v = u)]]
          /\ apps = <<[NoApp EXCEPT !.user_id = u, !.status = "pending"]>>
    /\ documents = 0
    /\ mreq = [p \in Procs |-> IdleReq]
    /\ mpre = [p \in Procs |-> [users |-> users, apps |-> apps,
                                documents |-> documents]]
    /\ InitVoteWith("trade", "PostModal", 0)
    /\ InitComments
    /\ adminGate \in Gates
    /\ InitAuth
    /\ InitClient

NextRouter ==
    \/ \E id \in DOMAIN Accounts \cup {Anonymous}, i \in 1..MaxApps,
          act \in {"approve", "reject"} :
          RouteReview(1, id, i, act, IF act = "reject" THEN "fake vouches"
                                     ELSE Undefined)
    \/ ReviewStep(1)
    \/ \E c \in Callers : c[1] <= 1 /\ RouteMiddlemen(1, c[1], c[2])
    \/ MiddlemenFound(1)
    \/ \E c \in Callers, owner \in Users \cup {0} : RouteDocument(1, c[1], c[2], owner)
    \/ DocumentFindById(1)
    \/ GetThrows(1)

SpecRouter == InitRouter /\ [][NextRouter]_vars

\* The auth router alone, its requests handled one at a time, from an empty
\* User collection.
InitAuthRouter ==
    /\ users = [u \in Users |-> NoUser]
    /\ apps = <<>>
    /\ documents = 0
    /\ mreq = [p \in Procs |-> IdleReq]
    /\ mpre = [p \in Procs |-> [users |-> users, apps |-> apps,
                                documents |-> documents]]
    /\ InitVoteWith("trade", "PostModal", 0)
    /\ InitAux

NextAuth ==
    \/ \E u \in Users \cup {0}, pw \in Passwords \ {"secret2"} : Register(u, pw)
    \/ RegisterFindOne
    \/ RegisterHash
    \/ RegisterSave
    \/ RegisterSaveTokens
    \/ \E u \in Users \cup {0}, pw \in Passwords \ {"short"} : Login(u, pw)
    \/ LoginFindOne
    \/ LoginCompare
    \/ LoginSave
    \/ \E u \in Users, now \in 0..MaxClock : now <= clock /\ Logout(u, Sign(u, now))
    \/ LogoutFindById
    \/ LogoutSave
    \/ AuthThrows
    \/ Tick

SpecAuth == InitAuthRouter /\ [][NextAuth]_vars

\* The authController alone, its requests handled one at a time.  The User
\* collection is empty or holds one account, which an administrator may have
\* banned or deactivated.
SeedDocs ==
    {<<>>} \cup
    {<<[NewUser(<<"a", "b">>, <<"e">>) EXCEPT !.role = r, !.is_active = a]>> :
        r \in {"user", "banned"}, a \in BOOLEAN}

\* The authController's collection holds docs; the other collections are
\* empty and nobody is at the browser.
InitControllerWith(docs) ==
    /\ users = [u \in Users |-> NoUser]
    /\ apps = <<>>
    /\ documents = 0
    /\ mreq = [p \in Procs |-> IdleReq]
    /\ mpre = [p \in Procs |-> [users |-> users, apps |-> apps,
                                documents |-> documents]]
    /\ InitVoteWith("trade", "PostModal", 0)
    /\ InitComments
    /\ adminGate = {"admin", "moderator"}
    /\ InitSessions
    /\ InitClient
    /\ userDocs \in docs

InitController == InitControllerWith(SeedDocs)

\* A login arrives, by a username or an email, with the right password or a
\* wrong one.
LoginArrives ==
    \E identifier \in Usernames \cup Emails \cup {<<>>},
       pw \in Passwords \ {"short"} : ControllerLogin(identifier, pw)

\* Registrations and logins within one second of the clock.
NextController ==
    \/ \E username \in Usernames \cup {<<>>}, email \in Emails,
          pw \in Passwords \ {"secret2"} : ControllerRegister(username, email, pw)
    \/ ControllerRegisterStep
    \/ LoginArrives
    \/ ControllerLoginStep
    \/ AuthThrows

SpecController == InitController /\ [][NextController]_vars

\* Logins and logouts of registered accounts: one account, or two of which
\* the older has logged out of the session its registration opened.
SessionDocs ==
    {<<[NewUser(<<"a", "b">>, <<"e">>) EXCEPT !.tokens = <<Sign(1, 0)>>]>>,
     <<NewUser(<<"a", ".">>, <<"f">>),
       [NewUser(<<"a", "b">>, <<"e">>) EXCEPT !.tokens = <<Sign(2, 0)>>]>>}

NextSessions ==
    \/ LoginArrives
    \/ ControllerLoginStep
    \/ \E i \in 1..MaxUserDocs, now \in 0..MaxClock :
          now <= clock /\ ControllerLogout(i, Sign(i, now))
    \/ ControllerLogoutStep
    \/ \E i \in 1..MaxUserDocs : LogoutAll(i)
    \/ LogoutAllStep
    \/ AuthThrows
    \/ Tick

SpecSessions == InitControllerWith(SessionDocs) /\ [][NextSessions]_vars

\* The trading hub: the image of a trade card and the hub's dialogs, with
\* anybody at the browser.
InitHub ==
    /\ InitMM
    /\ InitVoteWith("trade", "PostModal", 0)
    /\ InitComments
    /\ adminGate = {"admin", "moderator"}
    /\ InitAuth
    /\ image = NewImage
    /\ \E c \in CurrentUsers : editor = NewEditor(c)
    /\ viewer = NewViewer
    /\ profile = LoadEffect(NewProfile)

NextHub ==
    \/ ImageFails
    \/ ImageRetryTimer
    \/ handleImageLoad
    \/ handleRetry
    \/ \E t \in Trades : EditFromCard(t)
    \/ \E t \in Trades : handleTradeClick(t)
    \/ handleEditFromModal
    \/ CloseDialog

SpecHub == InitHub /\ [][NextHub]_vars

\* The dashboard with its PostModal and the profile page.
NextPages ==
    \/ \E n \in Posts : handlePostClick(n)
    \/ handleCloseModal
    \/ ArrowClick
    \/ \E index \in 0..(MaxImages - 1) : DotClick(index)
    \/ loadInitialData
    \/ \E outcome \in {"ok", "too many requests", "failed"} :
          GetCurrentUserReturns(outcome)
    \/ TradeHistoryReturns
    \/ WishlistLoad
    \/ ProfileRetryTimer
    \/ refreshData

SpecPages == InitReview /\ [][NextPages]_vars

\* Reviews alone, of an application a user submitted without files: the
\* collections as a completed submission leaves them.
InitRecover ==
    /\ \E u \in Users :
          /\ users = [v \in Users |-> [exists |-> TRUE, role |-> "user",
                                       role_history |-> <<>>,
                                       middleman_requested |-> (v = u)]]
          /\ apps = <<[NoApp EXCEPT !.user_id = u, !.status = "pending"]>>
    /\ documents = 0
    /\ mreq = [p \in Procs |-> IdleReq]
    /\ mpre = [p \in Procs |-> [users |-> users, apps |-> apps,
                                documents |-> documents]]
    /\ InitVoteWith("trade", "PostModal", 0)
    /\ InitAux

NextRecover == ReviewArrives(1) \/ ReviewStep(1)

SpecRecover == InitRecover /\ [][NextRecover]_vars

\* Reviews of the submitted application by several reviewers at once, each
\* request in a slot of its own, interleaving at their awaits.
NextReviewers == \E p \in Procs : ReviewArrives(p) \/ ReviewStep(p)

SpecReviewers == InitRecover /\ [][NextReviewers]_vars

\* ================================================================ claims
NoDuplicates(list) == \A i, j \in 1..Len(list) : list[i] = list[j] => i = j

\* The request in slot 1, the only slot of the sequential specifications.
vote == vreq[1]
AnsweredVote == vote.pc \in {"responded", "closed"} /\ vote.status = 200
HandledVote == vote.pc = "closed" /\ vote.status = 200 /\ vote.fromModal

\* C1: after any sequence of votes, each run to completion, no user is in
\* both lists of the post and no user is twice in either list.
C1_VoteListsExclusive ==
    /\ NoDuplicates(upvotes)
    /\ NoDuplicates(downvotes)
    /\ \A u \in Users : ~(Member(upvotes, u) /\ Member(downvotes, u))

\* A user flipped a vote while the other list holds another user's vote.
C1_Witness ==
    /\ AnsweredVote
    /\ vprev.status = 200 /\ vprev.userId = vote.userId
    /\ vprev.direction # vote.direction
    /\ Len(upvotes) >= 1 /\ Len(downvotes) >= 1
    /\ Len(vprev.pre.upvotes) + Len(vprev.pre.downvotes) >= 1

\* Two successful votes in a row by one user in one direction, the user
\* having no vote before the first.
SameVoteTwice ==
    /\ AnsweredVote
    /\ vprev.status = 200 /\ vprev.userId = vote.userId
    /\ vprev.direction = vote.direction
    /\ UserVoteOf(vprev.pre.upvotes, vprev.pre.downvotes, vote.userId) = Null

\* C2: voting twice in a row in the same direction from no vote restores
\* both lists, the second call reports userVote null, and the modal that made
\* the call shows no vote and 'Vote removed!'.
C2_DoubleVoteClears ==
    SameVoteTwice =>
        /\ upvotes = vprev.pre.upvotes
        /\ downvotes = vprev.pre.downvotes
        /\ vote.userVote = Null
        /\ HandledVote => modal.userVote = Null /\ modal.toast = "Vote removed!"

C2_Witness ==
    /\ SameVoteTwice /\ HandledVote
    /\ modal.view = "TradeDetailsModal"
    /\ Len(upvotes) + Len(downvotes) >= 1

\* A successful vote by a user who was in the opposite list.
FlippedVote ==
    /\ AnsweredVote
    /\ UserVoteOf(vote.pre.upvotes, vote.pre.downvotes, vote.userId)
         = Opposite(vote.direction)

\* An up vote then a down vote by the only voter.
UpThenDownAlone ==
    /\ AnsweredVote
    /\ vprev.status = 200 /\ vprev.userId = vote.userId
    /\ vprev.direction = "up" /\ vote.direction = "down"
    /\ vprev.pre.upvotes = <<>> /\ vprev.pre.downvotes = <<>>

\* C3: a vote against the actor's recorded vote moves the actor to the
\* requested list in that one operation; up then down by the only voter gives
\* upvotes 0, downvotes 1, userVote 'down', in the response and in the modal.
C3_FlipMovesVote ==
    /\ FlippedVote =>
          /\ UserVoteOf(upvotes, downvotes, vote.userId) = vote.direction
          /\ ~Member(IF vote.direction = "up" THEN downvotes ELSE upvotes, vote.userId)
          /\ Len(upvotes) + Len(downvotes)
               = Len(vote.pre.upvotes) + Len(vote.pre.downvotes)
    /\ UpThenDownAlone =>
          /\ upvotes = <<>> /\ downvotes = <<vote.userId>>
          /\ vote.upvotes = 0 /\ vote.downvotes = 1 /\ vote.userVote = "down"
          /\ HandledVote =>
                modal.upvotes = 0 /\ modal.downvotes = 1 /\ modal.userVote = "down"

C3_Witness ==
    /\ UpThenDownAlone /\ FlippedVote /\ HandledVote
    /\ modal.view = "PostModal" /\ modal.toast = "Downvoted!"

\* C4: a successful vote returns the sizes of the two lists after it and the
\* actor's vote by membership, and the modal shows what was returned.
C4_ResponseMatchesLists ==
    /\ AnsweredVote =>
          /\ vote.upvotes = Len(upvotes)
          /\ vote.downvotes = Len(downvotes)
          /\ vote.userVote = UserVoteOf(upvotes, downvotes, vote.userId)
          /\ vote.userVote = "up" <=> Member(upvotes, vote.userId)
          /\ vote.userVote = "down" <=> Member(downvotes, vote.userId)
    /\ HandledVote =>
          /\ modal.upvotes = vote.upvotes
          /\ modal.downvotes = vote.downvotes
          /\ modal.userVote = vote.userVote
          /\ ~modal.votingLoading

C4_Witness ==
    /\ HandledVote
    /\ vote.upvotes = 1 /\ vote.downvotes = 0 /\ vote.userVote = Null
    /\ modal.upvotes = 1

\* The request in slot 1 of the verification controller and what it aims at.
review == mreq[1]
ReviewDone == review.kind = "review" /\ review.pc = "done"
Target == review.applicationId
TargetExisted == Target \in 1..Len(mpre[1].apps)
Applicant == mpre[1].apps[Target].user_id

\* C5: an application's status changes only from pending to approved or to
\* rejected; an application, once approved or rejected, keeps its status.
C5_StatusTransitions ==
    [][/\ Len(apps') >= Len(apps)
       /\ \A i \in 1..Len(apps) :
             /\ apps'[i].user_id = apps[i].user_id
             /\ apps'[i].status # apps[i].status =>
                   /\ apps[i].status = "pending"
                   /\ apps'[i].status \in {"approved", "rejected"}
       /\ \A i \in (Len(apps) + 1)..Len(apps') : apps'[i].status = "pending"]_vars

\* A review of an application decided before was answered.
C5_Witness ==
    /\ ReviewDone /\ review.action = "reject" /\ review.status = 400
    /\ TargetExisted /\ apps[Target].status = "approved"
    /\ \E i \in 1..Len(apps) : apps[i].status = "rejected"

\* C6: in every reachable state, also with submissions of one user
\* interleaving, each user has at most one pending application.
C6_AtMostOnePending == \A u \in Users : Cardinality(PendingIds(u)) <= 1

\* C7: an approval answered 200 leaves the application approved, the
\* applicant a middleman with exactly one more role_history entry, and
\* middleman_requested false.
C7_ApproveEffects ==
    (ReviewDone /\ review.action = "approve" /\ review.status = 200) =>
        /\ TargetExisted /\ mpre[1].apps[Target].status = "pending"
        /\ mpre[1].users[Applicant].exists
        /\ apps[Target].status = "approved"
        /\ users[Applicant].role = "middleman"
        /\ Len(users[Applicant].role_history)
             = Len(mpre[1].users[Applicant].role_history) + 1
        /\ SubSeq(users[Applicant].role_history, 1,
                  Len(mpre[1].users[Applicant].role_history))
             = mpre[1].users[Applicant].role_history
        /\ users[Applicant].role_history[Len(users[Applicant].role_history)].new_role
             = "middleman"
        /\ ~users[Applicant].middleman_requested

C7_Witness ==
    /\ ReviewDone /\ review.action = "approve" /\ review.status = 200
    /\ mpre[1].users[Applicant].middleman_requested
    /\ mpre[1].users[Applicant].role = "user"

\* C8: a review of an application that is not pending is answered with an
\* error and changes neither an application nor a user.
C8_ProcessedReviewRefused ==
    (ReviewDone /\ TargetExisted /\ mpre[1].apps[Target].status # "pending") =>
        /\ review.status >= 400
        /\ apps = mpre[1].apps
        /\ users = mpre[1].users

\* The second of two reviews of one application, both well-formed.
C8_Witness ==
    /\ ReviewDone /\ TargetExisted
    /\ mpre[1].apps[Target].status = "rejected"
    /\ review.action = "approve"
    /\ review.status = 400
    /\ review.error = "Application has already been processed"

\* A review request that fails the validations.
Malformed(r) ==
    \/ r.action = "reject" /\ r.reason \in {Undefined, ""}
    \/ r.action \notin {"approve", "reject"}

\* C9: a rejection without a reason, or an action that is neither approve
\* nor reject, is answered 400 on arrival, before any read or write: the
\* request is never suspended and the collections stay as they were.
C9_ValidationFirst ==
    (review.kind = "review" /\ Malformed(review)) =>
        /\ review.pc = "done"
        /\ review.status = 400
        /\ apps = mpre[1].apps
        /\ users = mpre[1].users

C9_Witness ==
    /\ ReviewDone /\ review.action = "reject" /\ review.reason = ""
    /\ TargetExisted /\ apps[Target].status = "pending"
    /\ users[Applicant].exists

\* C10: a rejection answered 200 leaves the application rejected with the
\* reason given, and the applicant's role and role_history as they were.
C10_RejectEffects ==
    (ReviewDone /\ review.action = "reject" /\ review.status = 200) =>
        /\ TargetExisted /\ mpre[1].apps[Target].status = "pending"
        /\ apps[Target].status = "rejected"
        /\ apps[Target].rejection_reason = review.reason
        /\ review.reason = "fake vouches"
        /\ users[Applicant].role = mpre[1].users[Applicant].role
        /\ users[Applicant].role_history = mpre[1].users[Applicant].role_history

C10_Witness ==
    /\ ReviewDone /\ review.action = "reject" /\ review.status = 200
    /\ mpre[1].users[Applicant].middleman_requested
    /\ users[Applicant].role = "user"

\* C11: a review of a pending application whose applicant has no user
\* record is answered 404 'User not found' (500 when the store fails), and
\* at the 404 the application is already stored with the decided status.
C11_UserNotFoundAfterSave ==
    (/\ ReviewDone /\ ~Malformed(review) /\ TargetExisted
     /\ mpre[1].apps[Target].status = "pending"
     /\ ~mpre[1].users[Applicant].exists) =>
        /\ review.status \in {404, 500}
        /\ review.status = 404 =>
              /\ review.error = "User not found"
              /\ apps[Target].status = ReviewStatus(review.action)
              /\ apps[Target].status \in {"approved", "rejected"}
              /\ apps[Target].reviewed_by = review.adminId
              /\ users = mpre[1].users

C11_Witness ==
    /\ ReviewDone /\ review.status = 404 /\ review.error = "User not found"
    /\ review.action = "approve"
    /\ TargetExisted /\ mpre[1].apps[Target].status = "pending"
    /\ apps[Target].status = "approved"
    /\ ~users[Applicant].exists

\* An approval failed after application.save(): the application is
\* approved, its applicant is not a middleman.
ApprovedWithoutRole ==
    /\ ReviewDone /\ review.action = "approve" /\ review.status = 500
    /\ TargetExisted /\ mpre[1].apps[Target].status = "pending"
    /\ apps[Target].status = "approved"

\* C12: when an approval fails after the application was saved, the
\* application is approved and the applicant's user record is as it was;
\* from then on, whatever reviews are made, the application stays approved
\* and the applicant does not become a middleman.
C12_NoRollback ==
    \A i \in 1..MaxApps, u \in Users :
        []((ApprovedWithoutRole /\ Target = i /\ Applicant = u) =>
             /\ users = mpre[1].users
             /\ users[u].role # "middleman"
             /\ [](/\ i <= Len(apps) /\ apps[i].status = "approved"
                   /\ users[u].role # "middleman"))

\* A second approval of the application left approved without the role was
\* refused.
C12_Witness ==
    /\ ReviewDone /\ review.action = "approve" /\ review.status = 400
    /\ review.error = "Application has already been processed"
    /\ TargetExisted /\ mpre[1].apps[Target].status = "approved"
    /\ users[Applicant].role = "user"
    /\ users[Applicant].middleman_requested

\* The two requests of the race, both answered 200 after reading the same
\* lists: neither read what the other wrote.
RacedVotes ==
    /\ \A p \in RaceProcs : vreq[p].pc = "closed" /\ vreq[p].status = 200
    /\ vreq[1].read = vreq[2].read

\* The vote p's actor had in the lists p read.
VoteBefore(p) == UserVoteOf(vreq[p].read.upvotes, vreq[p].read.downvotes, vreq[p].userId)

\* The lists after the two votes made one after the other.
SequentialVotes ==
    LET first == Toggle(vreq[1].read.upvotes, vreq[1].read.downvotes,
                        vreq[1].userId, vreq[1].direction)
    IN Toggle(first.upvotes, first.downvotes, vreq[2].userId, vreq[2].direction)

\* C13: when two users add a vote in the same direction and both handlers
\* read the lists before either writes, both are answered 200 with their
\* vote, but one of the two users is in the list and the other is not; when
\* one of them had no vote before, the lists hold one voter fewer than after
\* the two votes made in sequence.
C13_LostUpdate ==
    (/\ RacedVotes
     /\ vreq[1].userId # vreq[2].userId
     /\ vreq[1].direction = vreq[2].direction
     /\ \A p \in RaceProcs : VoteBefore(p) # vreq[p].direction) =>
        LET list == IF vreq[1].direction = "up" THEN upvotes ELSE downvotes
        IN /\ (\E p \in RaceProcs : VoteBefore(p) = Null) =>
                Len(upvotes) + Len(downvotes)
                  = Len(SequentialVotes.upvotes) + Len(SequentialVotes.downvotes) - 1
           /\ Member(list, vreq[1].userId) # Member(list, vreq[2].userId)
           /\ \A p \in RaceProcs : vreq[p].userVote = vreq[p].direction

C13_Witness ==
    /\ RacedVotes
    /\ vreq[1].userId = 1 /\ vreq[2].userId = 2
    /\ vreq[1].direction = "up" /\ vreq[2].direction = "up"
    /\ vreq[1].read.upvotes = <<>> /\ vreq[1].read.downvotes = <<>>
    /\ vreq[1].upvotes = 1 /\ vreq[2].upvotes = 1
    /\ upvotes = <<2>> /\ downvotes = <<>>

\* C14: when two requests of one user with no vote, in opposite directions,
\* both read the lists before either writes, the user ends in both lists.
C14_BothLists ==
    (/\ RacedVotes
     /\ vreq[1].userId = vreq[2].userId
     /\ vreq[1].direction # vreq[2].direction
     /\ VoteBefore(1) = Null) =>
        /\ Member(upvotes, vreq[1].userId)
        /\ Member(downvotes, vreq[1].userId)

C14_Witness ==
    /\ RacedVotes
    /\ vreq[1].userId = 1 /\ vreq[2].userId = 1
    /\ vreq[1].direction = "up" /\ vreq[2].direction = "down"
    /\ vreq[1].userVote = "up" /\ vreq[2].userVote = "down"
    /\ Member(upvotes, 1) /\ Member(downvotes, 1)

\* The step is a call of the modal's comment handler.
CommentHandlerCalled == modal'.submits # modal.submits

\* C15: a comment appended by the server adds exactly one comment, by the
\* caller, with text that is not blank, after the comments there were; a
\* call of the modal's comment handler with blank text or during a submit
\* sends no request and leaves the comments shown as they are.
C15_CommentAppend ==
    [][/\ comments' # comments =>
             /\ Len(comments') = Len(comments) + 1
             /\ SubSeq(comments', 1, Len(comments)) = comments
             /\ comments'[Len(comments')].author = creq.author
             /\ creq.author = me /\ me # 0
             /\ Trim(comments'[Len(comments')].content) # <<>>
             /\ creq'.status = 200
       /\ (/\ CommentHandlerCalled
           /\ Trim(modal.newComment) = <<>> \/ modal.submittingComment) =>
             /\ creq' = creq
             /\ comments' = comments
             /\ modal'.comments = modal.comments]_vars

\* The handler was called during a submit whose comment the server has
\* stored, after an earlier comment.
C15_Witness ==
    /\ modal.submits = 1 /\ modal.submittingComment
    /\ creq.pc = "responded" /\ creq.status = 200
    /\ Len(comments) = 2 /\ Len(modal.comments) = 1
    /\ comments[2].content = <<"x">>

\* The request the verification router handled in slot 1.
call == mreq[1]
RefusedCall(route) == call.kind = "refused" /\ call.route = route

\* C16: a review request reaches reviewApplication only with the role admin
\* or moderator in its token; from any other caller, with or without a
\* token, it is answered by the middleware and no application and no user
\* changes.
C16_ReviewNeedsStaff ==
    /\ call.kind = "review" => AccountRole(call.adminId) \in {"admin", "moderator"}
    /\ RefusedCall("review") =>
          /\ call.pc = "done"
          /\ call.status = IF call.role = "none" THEN 401 ELSE 403
          /\ apps = mpre[1].apps
          /\ users = mpre[1].users
    /\ (call.route = "review" /\ call.role \notin {"admin", "moderator"}) =>
          call.kind = "refused"

\* An approval by a plain user of a pending application was refused.
C16_Witness ==
    /\ RefusedCall("review") /\ call.role = "user" /\ call.status = 403
    /\ call.action = "approve"
    /\ call.applicationId \in 1..Len(apps)
    /\ apps[call.applicationId].status = "pending"
    /\ users[apps[call.applicationId].user_id].role = "user"
    /\ adminGate = {"admin", "moderator"}

\* The submission handled in slot 1.
submit == mreq[1]
SubmitDone == submit.kind = "submit" /\ submit.pc = "done"
Complete(r) == r.experience /\ r.availability /\ r.why_middleman

\* C17: a submission answered 201 came from a user without a pending
\* application, with the three fields, and added exactly one application,
\* pending and of that user, whose middleman_requested flag is then true; a
\* submission that lacks one of the fields is answered 400 (500 when the
\* store fails) and adds neither an application nor a document record.
C17_SubmitCreatesPending ==
    /\ (SubmitDone /\ submit.status = 201) =>
          /\ Complete(submit)
          /\ \A i \in 1..Len(mpre[1].apps) :
                ~(mpre[1].apps[i].user_id = submit.userId
                  /\ mpre[1].apps[i].status = "pending")
          /\ Len(apps) = Len(mpre[1].apps) + 1
          /\ SubSeq(apps, 1, Len(mpre[1].apps)) = mpre[1].apps
          /\ apps[Len(apps)].user_id = submit.userId
          /\ apps[Len(apps)].status = "pending"
          /\ Cardinality(PendingIds(submit.userId)) = 1
          /\ users[submit.userId].exists => users[submit.userId].middleman_requested
    /\ (SubmitDone /\ ~Complete(submit)) =>
          /\ submit.status \in {400, 500}
          /\ apps = mpre[1].apps
          /\ documents = mpre[1].documents

\* A user whose earlier application was rejected applied again, with a file.
C17_Witness ==
    /\ SubmitDone /\ submit.status = 201
    /\ Len(apps) = 2 /\ apps[1].user_id = submit.userId /\ apps[1].status = "rejected"
    /\ documents = 1
    /\ users[submit.userId].middleman_requested

\* C18: GET /middlemen from a caller with a valid token is not refused by
\* a middleware: it reaches getActiveMiddlemen, whatever the caller's role.
C18_MiddlemenOpen ==
    (call.route = "middlemen" /\ call.role # "none") => call.kind = "middlemen"

\* The request for a document was answered by a middleware or by
\* getDocumentById, the store having answered.
DocumentCall ==
    /\ call.route = "documents" /\ call.pc = "done" /\ call.status # 500

\* C19: GET /documents/:documentId sends the file exactly when the document
\* exists and the caller is an admin or the document's owner.
C19_DocumentAccess ==
    DocumentCall =>
        (call.status = 200 <=>
            /\ call.document # 0
            /\ call.role = "admin" \/ (call.role # "none" /\ call.document = call.userId))

\* list is the end of whole.
IsSuffix(list, whole) ==
    /\ Len(list) <= Len(whole)
    /\ list = SubSeq(whole, Len(whole) - Len(list) + 1, Len(whole))

\* The auth router answered a register or a login with a token.
TokenReturned ==
    /\ areq.pc = "done"
    /\ \/ areq.kind = "register" /\ areq.status = 201
       \/ areq.kind = "login" /\ areq.status = 200

\* C20: with the requests of the auth router handled one at a time, a
\* user's tokens are at most five, they are the last of the tokens issued to
\* the user and not logged out since, in the order of issue, and the token
\* a register or login has just returned is among them.
C20_TokensCapped ==
    /\ \A u \in Users :
          /\ Len(tokens[u]) <= KeepTokens
          /\ IsSuffix(tokens[u], live[u])
    /\ TokenReturned =>
          /\ Len(tokens[areq.user]) >= 1
          /\ tokens[areq.user][Len(tokens[areq.user])] = areq.token

\* A sixth login pushed the oldest token out.
C20_Witness ==
    /\ TokenReturned /\ areq.kind = "login"
    /\ Len(live[areq.user]) = 6 /\ Len(tokens[areq.user]) = 5
    /\ tokens[areq.user][1] # live[areq.user][1]
    /\ tokens[areq.user][5] = areq.token

\* The authController answered a request of the kind with the status.
ControllerDone(kind, status) ==
    areq.pc = "done" /\ areq.kind = kind /\ areq.status = status

\* C21: a logout that succeeds has removed from the caller's tokens the
\* token presented, has kept the caller's other tokens in their order and
\* has left every other field and every other user's document as they were
\* when the request arrived; a logoutAll that succeeds has emptied the
\* caller's tokens and left the rest alike.
C21_LogoutFrame ==
    /\ ControllerDone("c_logout", 200) =>
          userDocs = [areq.pre EXCEPT ![areq.user].tokens =
                         SelectSeq(@, LAMBDA t : t # areq.token)]
    /\ ControllerDone("c_logoutAll", 200) =>
          userDocs = [areq.pre EXCEPT ![areq.user].tokens = <<>>]

\* A user logged in twice, a second apart, logged out of one session and
\* keeps the other.
C21_Witness ==
    /\ ControllerDone("c_logout", 200)
    /\ Len(areq.pre[areq.user].tokens) = 2
    /\ \E k \in 1..2 : areq.pre[areq.user].tokens[k] = areq.token
    /\ Len(userDocs[areq.user].tokens) = 1
    /\ userDocs[areq.user].tokens[1] # areq.token

\* The account the login's lookup returned was banned or deactivated when
\* the request arrived.
LoginOfRefused ==
    /\ areq.user # 0
    /\ areq.pre[areq.user].role = "banned" \/ ~areq.pre[areq.user].is_active

\* C22: a login with an identifier and a password that finds a banned or
\* deactivated account is answered 403, right or wrong the password; a login
\* that finds no account, or an account that may log in but with a wrong
\* password, is answered 401; a 403 or 401 carries no token and leaves the
\* User documents, tokens and lastLogin included, as they were.  (A lookup or
\* save that throws is answered 500.)
C22_LoginRefused ==
    (/\ areq.pc = "done" /\ areq.kind = "c_login" /\ areq.status # 500
     /\ areq.username # <<>> /\ areq.password # "")
    => /\ LoginOfRefused <=> areq.status = 403
       /\ (areq.user = 0 \/ (~LoginOfRefused /\ areq.password # GoodPassword))
             <=> areq.status = 401
       /\ areq.status \in {401, 403} => areq.token = <<>> /\ userDocs = areq.pre

\* A deactivated account, not banned, gave its right password.
C22_Witness ==
    /\ ControllerDone("c_login", 403)
    /\ areq.password = GoodPassword
    /\ areq.pre[areq.user].role = "user"
    /\ ~areq.pre[areq.user].is_active

\* C27: a register whose duplicate lookup found an existing user is answered
\* 400 and creates no user.  (A later await that throws is answered 500.)
C27_DuplicateRefused ==
    (/\ areq.pc = "done" /\ areq.kind = "c_register" /\ areq.status # 500
     /\ areq.existing # 0)
    => areq.status = 400 /\ userDocs = areq.pre

\* The slots holding a vote request of the modal that the modal's handler
\* still awaits or has not yet resumed from.
ModalInFlight ==
    {p \in Procs : vreq[p].fromModal /\ vreq[p].pc \in {"v_find", "v_save", "responded"}}

\* C24: at most one vote request of the modal is under way at any time, and
\* votingLoading is true exactly while one is: a click while it is true sends
\* nothing, and it is false again once the handler has resumed, after a
\* success as after a failure.
C24_OneVoteInFlight ==
    /\ Cardinality(ModalInFlight) <= 1
    /\ modal.votingLoading <=> ModalInFlight # {}

\* A vote of the modal failed and was handled; the next one is under way
\* while another slot is free for a request.
C24_Witness ==
    /\ modal.votingLoading
    /\ \E p, q \in Procs :
          /\ vreq[p].fromModal /\ vreq[p].pc = "v_save"
          /\ vreq[q].fromModal /\ vreq[q].pc = "closed" /\ vreq[q].status = 500

\* The role_history entry an approval has just appended.
ApprovalEntry == users[Applicant].role_history[Len(users[Applicant].role_history)]

\* C26: the role_history entry an approval appends names as old_role the
\* role the applicant held when the review arrived, as new_role 'middleman'
\* and as changed_by the reviewer.
C26_RoleHistoryOldRole ==
    (ReviewDone /\ review.action = "approve" /\ review.status = 200) =>
        /\ ApprovalEntry.old_role = mpre[1].users[Applicant].role
        /\ ApprovalEntry.new_role = "middleman"
        /\ ApprovalEntry.changed_by = review.adminId

\* The review in slot p was answered 200.
ReviewSucceeded(p) ==
    mreq[p].kind = "review" /\ mreq[p].pc = "done" /\ mreq[p].status = 200

\* C30: of the reviews of one application at most one is answered 200, and
\* no applicant holds the role 'middleman' while the application is
\* rejected.
C30_OneReviewWins ==
    \A i \in 1..Len(apps) :
        /\ Cardinality({p \in Procs : ReviewSucceeded(p) /\ mreq[p].applicationId = i})
             <= 1
        /\ apps[i].status = "rejected" => users[apps[i].user_id].role # "middleman"

\* The retries of the image since the mount or the last manual Retry: those
\* whose timer fired, and the one whose timer is pending.
ImageRetries == image.retryCount + (IF image.timer THEN 1 ELSE 0)

\* C23: an image that keeps failing is retried once after its first and
\* once after its second failure and never a third time; it is in the error
\* state exactly from its third failure on, with no retry pending and
\* nothing loading, until a manual Retry, which starts over with retry count
\* 0.
C23_ImageRetries ==
    /\ image.failures <= 3
    /\ ImageRetries = (IF image.failures < 2 THEN image.failures ELSE 2)
    /\ image.imageError <=> image.failures = 3
    /\ image.imageError => ~image.timer /\ image.img = "none"

\* After a manual Retry the image failed three more times.
C23_Witness ==
    /\ image.retried
    /\ image.imageError
    /\ image.failures = 3 /\ image.retryCount = 2

\* C25: the edit action on a trade opens the edit dialog for it exactly
\* when canEditTrade holds for the trade.
C25_EditOpensDialog ==
    editor.edited # 0 =>
        ((editor.isEditDialogOpen /\ editor.editingTrade = editor.edited)
            <=> canEditTrade(editor, editor.edited))

\* C28: while a post with images is selected, the current image index is
\* an index of its images.
C28_ImageIndexValid ==
    (viewer.post /\ viewer.images >= 1) =>
        (0 <= viewer.currentImageIndex /\ viewer.currentImageIndex < viewer.images)

\* The profile has loaded, the wishlist load, the last to be scheduled, is
\* over and nothing is loading or scheduled.
ProfileSettled ==
    /\ profile.hasLoadedInitially
    /\ profile.loadingTimeoutRef = "wishlist"
    /\ ~profile.isLoadingProfile /\ ~profile.isLoadingWishlist
    /\ profile.pc = "idle" /\ profile.timer = "none"

\* C29: a press of Refresh on the settled profile page increments
\* refreshKey and schedules the profile load.
C29_RefreshStarts ==
    [][(ProfileSettled /\ profile'.press # profile.press)
          => /\ profile'.refreshKey = profile.refreshKey + 1
             /\ profile'.timer = "load"]_vars

====
